---- MODULE Spec2Model ----
(***************************************************************************)
(* Model of the openmemory server (apps/server/src/main.rs, mcp.rs): the   *)
(* request handlers that coordinate the PostgreSQL index store             *)
(* (memory_index) and the OpenSearch document store (index "memories").    *)
(*                                                                         *)
(* Every handler is modelled await by await: one action per store call,    *)
(* with the local code that precedes the next await.  A store call either  *)
(* succeeds and takes effect, or fails and leaves the store unchanged.     *)
(* Importance scores are counted in tenths (5 is 0.5), timestamps in ticks *)
(* of the wall clock.                                                      *)
(***************************************************************************)
EXTENDS Integers, Sequences, FiniteSets, TLC

\* ------------------------------------------------------------------ bounds
MaxIds == 2
MaxTime == 1
NumProcs == 2
MaxRequests == 3
\* The age of the oldest stored record when a search runs, in periods of 30 days.
MaxAge == 2

\* ------------------------------------------------------- program constants
ImportanceMin == 0
ImportanceMax == 10
DefaultImportance == 5
DefaultListLimit == 100
MinListLimit == 1
MaxListLimit == 500
DefaultSearchLimit == 5
MinSearchLimit == 1
MaxSearchLimit == 50
MaxToolSearchLimit == 20
CandidateFactor == 2
CacheTtl == 300
FallbackImportance == 5
ImportanceWeight == 6
RecencyWeight == 4

\* ----------------------------------------------------------------- values
\* Option<T>: None is the empty sequence, Some(x) the one-element sequence.
None == <<>>
Some(x) == <<x>>
IsSome(o) == o # <<>>
Unwrap(o) == o[1]
UnwrapOr(o, d) == IF o = <<>> THEN d ELSE o[1]

Ids == 1..MaxIds
Procs == 1..NumProcs

\* Uuid::to_string and Uuid::parse_str: the document store is keyed by the
\* textual form of the id.
UuidToString(id) == <<"uuid", id>>
UuidParseStr(s) == IF Len(s) = 2 /\ s[1] = "uuid" /\ s[2] \in Ids THEN Some(s[2]) ELSE None

\* DateTime::to_rfc3339 and DateTime::parse_from_rfc3339.
ToRfc3339(t) == <<"rfc3339", t>>
ParseFromRfc3339(s) == IF Len(s) = 2 /\ s[1] = "rfc3339" THEN Some(s[2]) ELSE None

\* A clamp that bounds from below only.
clamp01LowerOnly(v) == IF v < ImportanceMin THEN ImportanceMin ELSE v

\* f32::clamp(0.0, 1.0), in tenths.
clamp01(v) == IF v < ImportanceMin THEN ImportanceMin ELSE IF v > ImportanceMax THEN ImportanceMax ELSE v

\* ----------------------------------------------------------------- inputs
\* memory.save requests (McpRequest::MemorySave) of the HTTP front-end and
\* memory_save tool calls of the stdio front-end (which carry no user_id).
SaveRequests ==
    { [frontend |-> "http", content |-> "c1", summary |-> None, importance |-> None,
       tags |-> None, user_id |-> None],
      [frontend |-> "http", content |-> "c2", summary |-> Some("s1"), importance |-> Some(15),
       tags |-> Some(<<"t1">>), user_id |-> Some("u1")],
      [frontend |-> "http", content |-> "c1", summary |-> None, importance |-> Some(7),
       tags |-> Some(<<>>), user_id |-> None],
      [frontend |-> "stdio", content |-> "c2", summary |-> Some("s1"), importance |-> Some(-5),
       tags |-> Some(<<"t1">>), user_id |-> None] }

\* memory.update requests (McpRequest::MemoryUpdate), without the id.
UpdateFields ==
    { [content |-> None, summary |-> None, importance |-> None, tags |-> None],
      [content |-> Some("c3"), summary |-> None, importance |-> Some(12), tags |-> None],
      [content |-> None, summary |-> Some("s2"), importance |-> Some(3), tags |-> Some(<<"t2">>)] }

ListLimits == {None, Some(0)}
ListSources == {None, Some("postgres"), Some("opensearch")}
ListOwners == {None, Some("u1")}

VARIABLES
    pg,        \* the memory_index table: id -> MemoryIndex row
    os,        \* the "memories" index: textual id -> MemoryDocument
    clock,     \* Utc::now()
    nextId,    \* the next value of Uuid::new_v4()
    pc,        \* per request slot: the await the handler is at, or "idle"
    req,       \* per request slot: the request being (or last) handled
    loc,       \* per request slot: the handler's local variables
    resp,      \* per request slot: the response returned, None while running
    calls,     \* per request slot: the store calls issued, with their outcome
    before,    \* per request slot: both stores as they were when the request arrived
    outcome,   \* per id: what the server has done and reported about it so far
    served,    \* the requests accepted so far
    redis,     \* state.redis: whether a connection exists, and the keys Redis holds
    computed   \* per cache key: the result list that was computed and stored under it

vars == <<pg, os, clock, nextId, pc, req, loc, resp, calls, before, outcome, served,
         redis, computed>>

NoReq == [type |-> "none"]
NoLoc == [id |-> 0]

Init ==
    /\ pg = <<>>
    /\ os = <<>>
    /\ clock = 0
    /\ nextId = 1
    /\ pc = [p \in Procs |-> "idle"]
    /\ req = [p \in Procs |-> NoReq]
    /\ loc = [p \in Procs |-> NoLoc]
    /\ resp = [p \in Procs |-> None]
    /\ calls = [p \in Procs |-> <<>>]
    /\ before = [p \in Procs |-> [pg |-> <<>>, os |-> <<>>]]
    /\ outcome = [i \in Ids |-> [save |-> "none", input |-> NoReq, changed |-> FALSE,
                                 deleted |-> 0]]
    /\ served = 0
    /\ redis = [conn |-> FALSE, data |-> <<>>]
    /\ computed = <<>>

\* ------------------------------------------------------------ the stores
PgHas(id) == id \in DOMAIN pg
\* An insert that stores nothing.
PgInsertLost(row) == pg
PgInsert(row) == (row.id :> row) @@ pg
\* A delete that removes nothing.
PgDeleteNone(id) == pg
PgDelete(id) == [i \in (DOMAIN pg) \ {id} |-> pg[i]]
PgGet(id) == IF PgHas(id) THEN Some(pg[id]) ELSE None
\* rows_affected() of an UPDATE or DELETE ... WHERE id = $1
RowsAffected(id) == IF PgHas(id) THEN 1 ELSE 0

OsHas(key) == key \in DOMAIN os
OsPut(doc) == (doc.id :> doc) @@ os
OsDelete(key) == [k \in (DOMAIN os) \ {key} |-> os[k]]
OsGet(key) == IF OsHas(key) THEN Some(os[key]) ELSE None

\* A handler returns: the slot is idle again and holds the response.
Return(p, r) ==
    /\ pc' = [pc EXCEPT ![p] = "idle"]
    /\ resp' = [resp EXCEPT ![p] = Some(r)]

Goto(p, label) ==
    /\ pc' = [pc EXCEPT ![p] = label]
    /\ UNCHANGED resp

\* A store call succeeds or fails.
CallOutcomes == {TRUE, FALSE}

Call(p, name, ok) ==
    calls' = [calls EXCEPT ![p] = Append(@, <<name, ok>>)]

HttpError(status, msg) == [ok |-> FALSE, status |-> status, error |-> msg]

\* The clock advances on its own.
Tick ==
    /\ clock < MaxTime
    /\ clock' = clock + 1
    /\ UNCHANGED <<pg, os, nextId, pc, req, loc, resp, calls, before, outcome, served, redis, computed>>

\* A request arrives: the slot is free.
Accept(p, r, first) ==
    /\ pc[p] = "idle"
    /\ served < MaxRequests
    /\ served' = served + 1
    /\ req' = [req EXCEPT ![p] = r]
    /\ resp' = [resp EXCEPT ![p] = None]
    /\ calls' = [calls EXCEPT ![p] = <<>>]
    /\ before' = [before EXCEPT ![p] = [pg |-> pg, os |-> os]]
    /\ pc' = [pc EXCEPT ![p] = first]

\* ------------------------------------------------------------ memory.save
\* id, importance_score, tags and now are fixed before the first await.
SaveStart(p, r) ==
    /\ nextId <= MaxIds
    /\ Accept(p, [type |-> "memory.save"] @@ r, "save_insert")
    /\ nextId' = nextId + 1
    /\ loc' = [loc EXCEPT ![p] =
                 [id |-> nextId,
                  user_id |-> IF r.frontend = "stdio" THEN None ELSE r.user_id,
                  importance_score |-> clamp01(UnwrapOr(r.importance, DefaultImportance)),
                  tags |-> UnwrapOr(r.tags, <<>>),
                  now |-> clock]]
    /\ outcome' = [outcome EXCEPT ![nextId].input = r]
    /\ UNCHANGED <<pg, os, clock, redis, computed>>

\* A well-formed memory.save request arrives.
SaveBegin(p, r) ==
    /\ r \in SaveRequests
    /\ SaveStart(p, r)

\* Request bodies as they come off the wire: the content member absent, the
\* empty string, or a text.
SaveBodies ==
    { [frontend |-> f, content |-> c, summary |-> None, importance |-> None,
       tags |-> None, user_id |-> None] :
        f \in {"http", "stdio"}, c \in {None, Some(""), Some("c1")} }

\* content: String of McpRequest::MemorySave, and
\* args["content"].as_str().context("missing content")? of the stdio tool:
\* the member must be there; any string will do.
DeserializeSave(body) ==
    IF body.content = None THEN None
    ELSE Some([body EXCEPT !.content = Unwrap(body.content)])

\* The rejection of a body that does not deserialize: the Json extractor's
\* 422, or the JSON-RPC error of the tool call.
SaveRejection(body) ==
    IF body.frontend = "http"
    THEN HttpError("UNPROCESSABLE_ENTITY", "missing field content")
    ELSE HttpError("JSONRPC", "missing content")

\* A memory.save body arrives: it is rejected before the handler runs, or the
\* Save starts with the request it deserializes to.
SaveReceive(p, body) ==
    /\ body \in SaveBodies
    /\ IF DeserializeSave(body) = None
       THEN /\ pc[p] = "idle"
            /\ served < MaxRequests
            /\ served' = served + 1
            /\ req' = [req EXCEPT ![p] = [type |-> "memory.save"] @@ body]
            /\ resp' = [resp EXCEPT ![p] = Some(SaveRejection(body))]
            /\ calls' = [calls EXCEPT ![p] = <<>>]
            /\ before' = [before EXCEPT ![p] = [pg |-> pg, os |-> os]]
            /\ UNCHANGED <<pg, os, clock, nextId, pc, loc, outcome, redis, computed>>
       ELSE SaveStart(p, Unwrap(DeserializeSave(body)))

\* A row that drops the owner.
SaveIndexRowNoOwner(p) ==
    [id |-> loc[p].id, user_id |-> None, summary |-> req[p].summary,
     importance_score |-> loc[p].importance_score, tags |-> loc[p].tags,
     created_at |-> loc[p].now, updated_at |-> loc[p].now]

SaveIndexRow(p) ==
    [id |-> loc[p].id, user_id |-> loc[p].user_id, summary |-> req[p].summary,
     importance_score |-> loc[p].importance_score, tags |-> loc[p].tags,
     created_at |-> loc[p].now, updated_at |-> loc[p].now]

SaveDocument(p) ==
    [id |-> UuidToString(loc[p].id), user_id |-> loc[p].user_id, content |-> req[p].content,
     summary |-> req[p].summary, importance_score |-> loc[p].importance_score,
     tags |-> loc[p].tags, created_at |-> ToRfc3339(loc[p].now),
     updated_at |-> ToRfc3339(loc[p].now)]

SaveIndexError(p) ==
    IF req[p].frontend = "http"
    THEN HttpError("INTERNAL_SERVER_ERROR", "Failed to save memory index")
    ELSE HttpError("JSONRPC", "failed to save to PostgreSQL")

SaveContentError(p) ==
    IF req[p].frontend = "http"
    THEN HttpError("INTERNAL_SERVER_ERROR", "Failed to save memory content")
    ELSE HttpError("JSONRPC", "Failed to index document")

SaveResult(p) ==
    IF req[p].frontend = "http"
    THEN [ok |-> TRUE, type |-> "memory.save.result", id |-> loc[p].id, created_at |-> loc[p].now]
    ELSE [ok |-> TRUE, type |-> "text", id |-> loc[p].id, content |-> req[p].content,
          summary |-> req[p].summary, tags |-> loc[p].tags,
          importance |-> loc[p].importance_score]

\* A Save that goes on to the document write whatever the insert returned.
SaveAfterInsertContinue(ok) == "save_index"

\* if let Err(e) = pg_result { return Err(..) }
SaveAfterInsert(ok) == IF ok THEN "save_index" ELSE "return"

\* if let Err(e) = index_document(&doc) { rollback; return Err(..) }
SaveAfterIndex(ok) == IF ok THEN "return" ELSE "save_rollback"

\* 1. INSERT INTO memory_index; an error returns at once.
SaveInsert(p) ==
    /\ pc[p] = "save_insert"
    /\ \E ok \in CallOutcomes :
         /\ Call(p, "pg.insert", ok)
         /\ pg' = IF ok THEN PgInsert(SaveIndexRow(p)) ELSE pg
         /\ IF SaveAfterInsert(ok) = "return"
            THEN /\ Return(p, SaveIndexError(p))
                 /\ outcome' = [outcome EXCEPT ![loc[p].id].save = "index_failed"]
            ELSE /\ Goto(p, SaveAfterInsert(ok))
                 /\ UNCHANGED outcome
    /\ UNCHANGED <<os, clock, nextId, req, loc, before, served, redis, computed>>

\* 2. index_document; an error goes on to the rollback.
SaveIndexDocument(p) ==
    /\ pc[p] = "save_index"
    /\ \E ok \in CallOutcomes :
         /\ Call(p, "os.index", ok)
         /\ os' = IF ok THEN OsPut(SaveDocument(p)) ELSE os
         /\ IF SaveAfterIndex(ok) = "return"
            THEN /\ Return(p, SaveResult(p))
                 /\ outcome' = [outcome EXCEPT ![loc[p].id].save = "ok"]
            ELSE /\ Goto(p, SaveAfterIndex(ok))
                 /\ UNCHANGED outcome
    /\ UNCHANGED <<pg, clock, nextId, req, loc, before, served, redis, computed>>

\* A rollback without its WHERE clause.
SaveRollbackAll(p) ==
    /\ pc[p] = "save_rollback"
    /\ \E ok \in CallOutcomes :
         /\ Call(p, "pg.delete", ok)
         /\ pg' = IF ok THEN <<>> ELSE pg
         /\ outcome' = [outcome EXCEPT ![loc[p].id].save =
                           IF ok THEN "content_failed_rolled_back" ELSE "content_failed_orphaned"]
    /\ Return(p, SaveContentError(p))
    /\ UNCHANGED <<os, clock, nextId, req, loc, before, served, redis, computed>>

\* Rollback: DELETE FROM memory_index WHERE id = $1, its result dropped (let _ =).
SaveRollback(p) ==
    /\ pc[p] = "save_rollback"
    /\ \E ok \in CallOutcomes :
         /\ Call(p, "pg.delete", ok)
         /\ pg' = IF ok THEN PgDelete(loc[p].id) ELSE pg
         /\ outcome' = [outcome EXCEPT ![loc[p].id].save =
                           IF ok THEN "content_failed_rolled_back" ELSE "content_failed_orphaned"]
    /\ Return(p, SaveContentError(p))
    /\ UNCHANGED <<os, clock, nextId, req, loc, before, served, redis, computed>>

\* ---------------------------------------------------------- memory.update
\* let now = Utc::now(), before the first await.
UpdateStart(p, id, f) ==
    /\ Accept(p, [type |-> "memory.update", id |-> id] @@ f, "update_pg")
    /\ loc' = [loc EXCEPT ![p] = [id |-> id, now |-> clock]]
    /\ UNCHANGED <<pg, os, clock, nextId, outcome, redis, computed>>

\* A memory.update request arrives.
UpdateBegin(p, id, f) ==
    /\ id \in Ids
    /\ f \in UpdateFields
    /\ UpdateStart(p, id, f)

\* An UPDATE that overwrites summary and tags with NULL instead of keeping them.
UpdatedRowNoCoalesce(row, r, now) ==
    [row EXCEPT !.updated_at = now,
                !.summary = r.summary,
                !.importance_score = IF IsSome(r.importance) THEN clamp01(Unwrap(r.importance)) ELSE @,
                !.tags = UnwrapOr(r.tags, <<>>)]

\* An UPDATE that also sets created_at.
UpdatedRowNewCreatedAt(row, r, now) ==
    [row EXCEPT !.updated_at = now,
                !.created_at = now,
                !.summary = IF IsSome(r.summary) THEN r.summary ELSE @,
                !.importance_score = IF IsSome(r.importance) THEN clamp01(Unwrap(r.importance)) ELSE @,
                !.tags = IF IsSome(r.tags) THEN Unwrap(r.tags) ELSE @]

\* UPDATE memory_index SET updated_at = $1, summary = COALESCE($2, summary), ...
UpdatedRow(row, r, now) ==
    [row EXCEPT !.updated_at = now,
                !.summary = IF IsSome(r.summary) THEN r.summary ELSE @,
                !.importance_score = IF IsSome(r.importance) THEN clamp01(Unwrap(r.importance)) ELSE @,
                !.tags = IF IsSome(r.tags) THEN Unwrap(r.tags) ELSE @]

\* A merge that leaves the content as fetched.
UpdatedDocumentNoContent(doc, r, now) ==
    [doc EXCEPT !.summary = IF IsSome(r.summary) THEN Some(Unwrap(r.summary)) ELSE @,
                !.importance_score = IF IsSome(r.importance) THEN clamp01(Unwrap(r.importance)) ELSE @,
                !.tags = IF IsSome(r.tags) THEN Unwrap(r.tags) ELSE @,
                !.updated_at = ToRfc3339(now)]

\* A merge that leaves the document's updated_at as fetched.
UpdatedDocumentOldTimestamp(doc, r, now) ==
    [doc EXCEPT !.content = IF IsSome(r.content) THEN Unwrap(r.content) ELSE @,
                !.summary = IF IsSome(r.summary) THEN Some(Unwrap(r.summary)) ELSE @,
                !.importance_score = IF IsSome(r.importance) THEN clamp01(Unwrap(r.importance)) ELSE @,
                !.tags = IF IsSome(r.tags) THEN Unwrap(r.tags) ELSE @]

\* The field-by-field merge into the fetched document.
UpdatedDocument(doc, r, now) ==
    [doc EXCEPT !.content = IF IsSome(r.content) THEN Unwrap(r.content) ELSE @,
                !.summary = IF IsSome(r.summary) THEN Some(Unwrap(r.summary)) ELSE @,
                !.importance_score = IF IsSome(r.importance) THEN clamp01(Unwrap(r.importance)) ELSE @,
                !.tags = IF IsSome(r.tags) THEN Unwrap(r.tags) ELSE @,
                !.updated_at = ToRfc3339(now)]

UpdateResult(p) ==
    [ok |-> TRUE, type |-> "memory.update.result", id |-> loc[p].id, updated_at |-> loc[p].now]

\* An Update that does not look at rows_affected.
UpdateAfterPgNoRowCheck(ok, rows) == IF ~ok THEN "error" ELSE "update_get"

\* An Update that goes on to the document whatever the index write returned.
UpdateAfterPgAlways(ok, rows) == "update_get"

\* match pg_result { Ok(r) if r.rows_affected() == 0 => 404, Err(e) => 500, _ => {} }
UpdateAfterPg(ok, rows) ==
    IF ok /\ rows = 0 THEN "not_found" ELSE IF ~ok THEN "error" ELSE "update_get"

\* An Update that surfaces the failure of its document write.
UpdateAfterIndexSurfacing(p, ok) ==
    IF ok THEN UpdateResult(p)
    ELSE HttpError("INTERNAL_SERVER_ERROR", "Failed to update memory content")

\* if let Err(e) = index_document(&doc) { warn!(..) }, then the Ok response.
UpdateAfterIndex(p, ok) == UpdateResult(p)

\* An Update that writes back the row as it was when the request arrived.
UpdatePgFromSnapshot(p) ==
    /\ pc[p] = "update_pg"
    /\ \E ok \in CallOutcomes :
         LET rows == IF ok THEN RowsAffected(loc[p].id) ELSE 0
             then == UpdateAfterPg(ok, rows)
             old == IF loc[p].id \in DOMAIN before[p].pg THEN before[p].pg[loc[p].id]
                    ELSE pg[loc[p].id]
         IN  /\ Call(p, "pg.update", ok)
             /\ pg' = IF rows > 0
                      THEN [pg EXCEPT ![loc[p].id] = UpdatedRow(old, req[p], loc[p].now)]
                      ELSE pg
             /\ outcome' = IF rows > 0 THEN [outcome EXCEPT ![loc[p].id].changed = TRUE]
                           ELSE outcome
             /\ CASE then = "not_found" -> Return(p, HttpError("NOT_FOUND", "Memory not found"))
                  [] then = "error" ->
                       Return(p, HttpError("INTERNAL_SERVER_ERROR", "Failed to update memory"))
                  [] OTHER -> Goto(p, then)
    /\ UNCHANGED <<os, clock, nextId, req, loc, before, served, redis, computed>>

\* 1. The index row: an error or zero rows affected returns at once.
UpdatePg(p) ==
    /\ pc[p] = "update_pg"
    /\ \E ok \in CallOutcomes :
         LET rows == IF ok THEN RowsAffected(loc[p].id) ELSE 0
             then == UpdateAfterPg(ok, rows)
         IN  /\ Call(p, "pg.update", ok)
             /\ pg' = IF rows > 0
                      THEN [pg EXCEPT ![loc[p].id] = UpdatedRow(@, req[p], loc[p].now)]
                      ELSE pg
             /\ outcome' = IF rows > 0 THEN [outcome EXCEPT ![loc[p].id].changed = TRUE]
                           ELSE outcome
             /\ CASE then = "not_found" -> Return(p, HttpError("NOT_FOUND", "Memory not found"))
                  [] then = "error" ->
                       Return(p, HttpError("INTERNAL_SERVER_ERROR", "Failed to update memory"))
                  [] OTHER -> Goto(p, then)
    /\ UNCHANGED <<os, clock, nextId, req, loc, before, served, redis, computed>>

\* An Update that writes a new document when the lookup finds none.
UpdateGetDocumentUpserting(p) ==
    /\ pc[p] = "update_get"
    /\ \E ok \in CallOutcomes :
         /\ Call(p, "os.get", ok)
         /\ LET got == IF ok THEN OsGet(UuidToString(loc[p].id)) ELSE None
                blank == [id |-> UuidToString(loc[p].id), user_id |-> None, content |-> "",
                          summary |-> None, importance_score |-> DefaultImportance,
                          tags |-> <<>>, created_at |-> ToRfc3339(loc[p].now),
                          updated_at |-> ToRfc3339(loc[p].now)]
            IN  IF ok
                THEN /\ loc' = [loc EXCEPT ![p] =
                                  [id |-> loc[p].id, now |-> loc[p].now,
                                   doc |-> UpdatedDocument(UnwrapOr(got, blank), req[p],
                                                           loc[p].now)]]
                     /\ Goto(p, "update_index")
                ELSE /\ Return(p, UpdateResult(p))
                     /\ UNCHANGED loc
    /\ UNCHANGED <<pg, os, clock, nextId, req, before, outcome, served, redis, computed>>

\* 2. get_document: only Ok(Some(doc)) goes on to the write.
UpdateGetDocument(p) ==
    /\ pc[p] = "update_get"
    /\ \E ok \in CallOutcomes :
         /\ Call(p, "os.get", ok)
         /\ LET got == IF ok THEN OsGet(UuidToString(loc[p].id)) ELSE None
            IN  IF IsSome(got)
                THEN /\ loc' = [loc EXCEPT ![p] =
                                  [id |-> loc[p].id, now |-> loc[p].now,
                                   doc |-> UpdatedDocument(Unwrap(got), req[p], loc[p].now)]]
                     /\ Goto(p, "update_index")
                ELSE /\ Return(p, UpdateResult(p))
                     /\ UNCHANGED loc
    /\ UNCHANGED <<pg, os, clock, nextId, req, before, outcome, served, redis, computed>>

\* index_document of the merged document; an error is only logged.
UpdateIndexDocument(p) ==
    /\ pc[p] = "update_index"
    /\ \E ok \in CallOutcomes :
         /\ Call(p, "os.index", ok)
         /\ os' = IF ok THEN OsPut(loc[p].doc) ELSE os
         /\ Return(p, UpdateAfterIndex(p, ok))
    /\ UNCHANGED <<pg, clock, nextId, req, loc, before, outcome, served, redis, computed>>

\* ---------------------------------------------------------- memory.delete
DeleteBegin(p, id) ==
    /\ id \in Ids
    /\ Accept(p, [type |-> "memory.delete", id |-> id], "delete_pg")
    /\ loc' = [loc EXCEPT ![p] = [id |-> id]]
    /\ UNCHANGED <<pg, os, clock, nextId, outcome, redis, computed>>

DeleteResult(p) ==
    [ok |-> TRUE, type |-> "memory.delete.result", id |-> loc[p].id, deleted |-> TRUE]

\* A Delete that does not look at rows_affected.
DeleteAfterPgNoRowCheck(ok, rows) == IF ~ok THEN "error" ELSE "delete_os"

\* Err(e) => 500; deleted = rows_affected() > 0; if !deleted { 404 }
DeleteAfterPg(ok, rows) ==
    IF ~ok THEN "error" ELSE IF ~(rows > 0) THEN "not_found" ELSE "delete_os"

\* let _ = delete_document(..), then the Ok response.
DeleteAfterDocument(p, ok) == DeleteResult(p)

\* 1. DELETE FROM memory_index: an error or zero rows affected returns at once.
DeletePg(p) ==
    /\ pc[p] = "delete_pg"
    /\ \E ok \in CallOutcomes :
         LET rows == IF ok THEN RowsAffected(loc[p].id) ELSE 0
             then == DeleteAfterPg(ok, rows)
         IN  /\ Call(p, "pg.delete", ok)
             /\ pg' = IF ok THEN PgDelete(loc[p].id) ELSE pg
             /\ outcome' = IF rows > 0 THEN [outcome EXCEPT ![loc[p].id].changed = TRUE]
                           ELSE outcome
             /\ CASE then = "not_found" -> Return(p, HttpError("NOT_FOUND", "Memory not found"))
                  [] then = "error" ->
                       Return(p, HttpError("INTERNAL_SERVER_ERROR", "Failed to delete memory"))
                  [] OTHER -> Goto(p, then)
    /\ UNCHANGED <<os, clock, nextId, req, loc, before, served, redis, computed>>

\* 2. delete_document, its result dropped (let _ =).
DeleteDocument(p) ==
    /\ pc[p] = "delete_os"
    /\ \E ok \in CallOutcomes :
         /\ Call(p, "os.delete", ok)
         /\ os' = IF ok THEN OsDelete(UuidToString(loc[p].id)) ELSE os
         /\ Return(p, DeleteAfterDocument(p, ok))
         /\ outcome' = IF DeleteAfterDocument(p, ok).ok
                       THEN [outcome EXCEPT ![loc[p].id].deleted = @ + 1]
                       ELSE outcome
    /\ UNCHANGED <<pg, clock, nextId, req, loc, before, served, redis, computed>>

\* ------------------------------------------------------------- memory.get
GetBegin(p, id) ==
    /\ id \in Ids
    /\ Accept(p, [type |-> "memory.get", id |-> id], "get_os")
    /\ loc' = [loc EXCEPT ![p] = [id |-> id]]
    /\ UNCHANGED <<pg, os, clock, nextId, outcome, redis, computed>>

\* A merge that answers from the index row alone when the document is missing.
FullMemoryPartial(doc, index) ==
    IF IsSome(index)
    THEN Some([id |-> Unwrap(index).id, user_id |-> Unwrap(index).user_id,
               content |-> IF IsSome(doc) THEN Unwrap(doc).content ELSE "",
               summary |-> Unwrap(index).summary,
               importance_score |-> Unwrap(index).importance_score,
               tags |-> Unwrap(index).tags, created_at |-> Unwrap(index).created_at,
               updated_at |-> Unwrap(index).updated_at])
    ELSE None

\* match (doc, index): a FullMemory only from (Some, Some).
FullMemory(doc, index) ==
    IF IsSome(doc) /\ IsSome(index)
    THEN Some([id |-> Unwrap(index).id, user_id |-> Unwrap(index).user_id,
               content |-> Unwrap(doc).content, summary |-> Unwrap(index).summary,
               importance_score |-> Unwrap(index).importance_score,
               tags |-> Unwrap(index).tags, created_at |-> Unwrap(index).created_at,
               updated_at |-> Unwrap(index).updated_at])
    ELSE None

\* get_document(...).await.ok().flatten()
GetDocument(p) ==
    /\ pc[p] = "get_os"
    /\ \E ok \in CallOutcomes :
         /\ Call(p, "os.get", ok)
         /\ loc' = [loc EXCEPT ![p] =
                      [id |-> loc[p].id,
                       doc |-> IF ok THEN OsGet(UuidToString(loc[p].id)) ELSE None]]
    /\ Goto(p, "get_pg")
    /\ UNCHANGED <<pg, os, clock, nextId, req, before, outcome, served, redis, computed>>

\* An index read whose failure reaches the caller.
GetIndexSurfacing(p) ==
    /\ pc[p] = "get_pg"
    /\ \E ok \in CallOutcomes :
         /\ Call(p, "pg.select", ok)
         /\ IF ok
            THEN Return(p, [ok |-> TRUE, type |-> "memory.get.result",
                            memory |-> FullMemory(loc[p].doc, PgGet(loc[p].id))])
            ELSE Return(p, HttpError("INTERNAL_ERROR", "index read failed"))
    /\ UNCHANGED <<pg, os, clock, nextId, req, loc, before, outcome, served, redis, computed>>

\* fetch_optional(...).await.unwrap_or(None), then the merge.
GetIndex(p) ==
    /\ pc[p] = "get_pg"
    /\ \E ok \in CallOutcomes :
         /\ Call(p, "pg.select", ok)
         /\ LET index == IF ok THEN PgGet(loc[p].id) ELSE None
            IN  Return(p, [ok |-> TRUE, type |-> "memory.get.result",
                           memory |-> FullMemory(loc[p].doc, index)])
    /\ UNCHANGED <<pg, os, clock, nextId, req, loc, before, outcome, served, redis, computed>>

\* ------------------------------------------------------------ memory.list
Min(a, b) == IF a < b THEN a ELSE b
Max(a, b) == IF a > b THEN a ELSE b

\* Every order of the elements of set S in which key never increases: what
\* ORDER BY created_at DESC (and the "sort" of a document search) may return,
\* rows of equal key in any order.
SortedDesc(S, key(_)) ==
    { s \in [1..Cardinality(S) -> S] :
        /\ \A i, j \in 1..Cardinality(S) : i # j => s[i] # s[j]
        /\ \A i, j \in 1..Cardinality(S) : i < j => key(s[i]) >= key(s[j]) }

Truncate(s, n) == SubSeq(s, 1, Min(n, Len(s)))

\* SELECT ... FROM memory_index [WHERE user_id = $1] ORDER BY created_at DESC LIMIT n
PgCreatedAt(id) == pg[id].created_at
PgSelectPage(user_id, limit) ==
    LET match == { i \in DOMAIN pg : user_id = None \/ pg[i].user_id = user_id }
    IN  { [k \in 1..Min(limit, Len(s)) |-> pg[s[k]]] : s \in SortedDesc(match, PgCreatedAt) }

\* list_all: match_all, sort created_at desc, size n
OsCreatedAt(key) == UnwrapOr(ParseFromRfc3339(os[key].created_at), 0)
OsListAll(limit) ==
    { [k \in 1..Min(limit, Len(s)) |-> os[s[k]]] : s \in SortedDesc(DOMAIN os, OsCreatedAt) }

\* limit.unwrap_or(100).clamp(1, 500)
ListLimit(limit) == Min(Max(UnwrapOr(limit, DefaultListLimit), MinListLimit), MaxListLimit)

ListBegin(p, limit, user_id, source) ==
    /\ limit \in ListLimits
    /\ user_id \in ListOwners
    /\ source \in ListSources
    /\ Accept(p, [type |-> "memory.list", limit |-> limit, user_id |-> user_id, source |-> source],
              CASE UnwrapOr(source, "all") = "postgres" -> "list_postgres"
                [] UnwrapOr(source, "all") = "opensearch" -> "list_opensearch"
                [] OTHER -> "list_all_pg")
    /\ loc' = [loc EXCEPT ![p] = [id |-> 0, limit |-> ListLimit(limit)]]
    /\ UNCHANGED <<pg, os, clock, nextId, outcome, redis, computed>>

IndexListResult(i, content) ==
    [id |-> i.id, content |-> content, summary |-> i.summary, tags |-> i.tags,
     importance_score |-> i.importance_score, created_at |-> i.created_at,
     updated_at |-> Some(i.updated_at)]

DocumentListResult(d, now) ==
    [id |-> Unwrap(UuidParseStr(d.id)), content |-> Some(d.content), summary |-> d.summary,
     tags |-> d.tags, importance_score |-> d.importance_score,
     created_at |-> UnwrapOr(ParseFromRfc3339(d.created_at), now),
     updated_at |-> ParseFromRfc3339(d.updated_at)]

\* filter_map over a sequence.
RECURSIVE FilterMapDocs(_, _)
FilterMapDocs(docs, now) ==
    IF docs = <<>> THEN <<>>
    ELSE (IF IsSome(UuidParseStr(Head(docs).id))
          THEN <<DocumentListResult(Head(docs), now)>> ELSE <<>>)
         \o FilterMapDocs(Tail(docs), now)

ListResponse(memories, total, source) ==
    [ok |-> TRUE, type |-> "memory.list.result", memories |-> memories, total |-> total,
     source |-> source]

\* "postgres": the index rows alone, content: None.
ListPostgres(p) ==
    /\ pc[p] = "list_postgres"
    /\ \E ok \in CallOutcomes :
         /\ Call(p, "pg.select", ok)
         /\ \E rows \in (IF ok THEN PgSelectPage(req[p].user_id, loc[p].limit) ELSE {<<>>}) :
              Return(p, ListResponse([k \in 1..Len(rows) |-> IndexListResult(rows[k], None)],
                                     Len(rows), "postgres"))
    /\ UNCHANGED <<pg, os, clock, nextId, req, loc, before, outcome, served, redis, computed>>

\* A content-only listing that keeps the documents of the given owner only.
ListOpensearchOwned(p) ==
    /\ pc[p] = "list_opensearch"
    /\ \E ok \in CallOutcomes :
         /\ Call(p, "os.list_all", ok)
         /\ \E docs \in (IF ok THEN OsListAll(loc[p].limit) ELSE {<<>>}) :
              LET own == SelectSeq(docs, LAMBDA d :
                            req[p].user_id = None \/ d.user_id = req[p].user_id)
              IN  Return(p, ListResponse(FilterMapDocs(own, clock), Len(own), "opensearch"))
    /\ UNCHANGED <<pg, os, clock, nextId, req, loc, before, outcome, served, redis, computed>>

\* "opensearch": the documents alone; user_id is not used.
ListOpensearch(p) ==
    /\ pc[p] = "list_opensearch"
    /\ \E ok \in CallOutcomes :
         /\ Call(p, "os.list_all", ok)
         /\ \E docs \in (IF ok THEN OsListAll(loc[p].limit) ELSE {<<>>}) :
              Return(p, ListResponse(FilterMapDocs(docs, clock), Len(docs), "opensearch"))
    /\ UNCHANGED <<pg, os, clock, nextId, req, loc, before, outcome, served, redis, computed>>

\* A combined listing that leaves the owner filter out.
ListAllIndexAnyOwner(p) ==
    /\ pc[p] = "list_all_pg"
    /\ \E ok \in CallOutcomes :
         /\ Call(p, "pg.select", ok)
         /\ \E rows \in (IF ok THEN PgSelectPage(None, loc[p].limit) ELSE {<<>>}) :
              IF rows = <<>>
              THEN /\ Return(p, ListResponse(<<>>, 0, "all"))
                   /\ UNCHANGED loc
              ELSE /\ loc' = [loc EXCEPT ![p] =
                                [id |-> 0, limit |-> loc[p].limit, indexes |-> rows,
                                 results |-> <<>>]]
                   /\ Goto(p, "list_all_doc")
    /\ UNCHANGED <<pg, os, clock, nextId, req, before, outcome, served, redis, computed>>

\* "all": the index rows first ...
ListAllIndex(p) ==
    /\ pc[p] = "list_all_pg"
    /\ \E ok \in CallOutcomes :
         /\ Call(p, "pg.select", ok)
         /\ \E rows \in (IF ok THEN PgSelectPage(req[p].user_id, loc[p].limit) ELSE {<<>>}) :
              IF rows = <<>>
              THEN /\ Return(p, ListResponse(<<>>, 0, "all"))
                   /\ UNCHANGED loc
              ELSE /\ loc' = [loc EXCEPT ![p] =
                                [id |-> 0, limit |-> loc[p].limit, indexes |-> rows,
                                 results |-> <<>>]]
                   /\ Goto(p, "list_all_doc")
    /\ UNCHANGED <<pg, os, clock, nextId, req, before, outcome, served, redis, computed>>

\* ... then one get_document per row, .ok().flatten().map(|d| d.content).
ListAllDocument(p) ==
    /\ pc[p] = "list_all_doc"
    /\ \E ok \in CallOutcomes :
         /\ Call(p, "os.get", ok)
         /\ LET idx == loc[p].indexes[Len(loc[p].results) + 1]
                got == IF ok THEN OsGet(UuidToString(idx.id)) ELSE None
                content == IF IsSome(got) THEN Some(Unwrap(got).content) ELSE None
                results == Append(loc[p].results, IndexListResult(idx, content))
            IN  IF Len(results) = Len(loc[p].indexes)
                THEN /\ Return(p, ListResponse(results, Len(results), "all"))
                     /\ UNCHANGED loc
                ELSE /\ loc' = [loc EXCEPT ![p].results = results]
                     /\ Goto(p, "list_all_doc")
    /\ UNCHANGED <<pg, os, clock, nextId, req, before, outcome, served, redis, computed>>

\* ---------------------------------------------------------- memory.search
\* Requests of the HTTP front-end (McpRequest::MemorySearch) and memory_search
\* tool calls of the stdio front-end (no user_id, no cache).
SearchQueries == {"q"}
SearchLimits == {None, Some(0)}
SearchOwners == {None, Some("u1")}
SearchFrontends == {"http", "stdio"}

\* A limit that is not clamped from below.
SearchLimitNoFloor(frontend, limit) ==
    Min(UnwrapOr(limit, DefaultSearchLimit),
        IF frontend = "http" THEN MaxSearchLimit ELSE MaxToolSearchLimit)

\* limit.unwrap_or(5).clamp(1, 50), and clamp(1, 20) in the stdio front-end.
SearchLimit(frontend, limit) ==
    Min(Max(UnwrapOr(limit, DefaultSearchLimit), MinSearchLimit),
        IF frontend = "http" THEN MaxSearchLimit ELSE MaxToolSearchLimit)

\* format!("search:{}:{}:{}", user_id.as_deref().unwrap_or("*"), &query, limit)
CacheKey(user_id, query, limit) ==
    "search:" \o UnwrapOr(user_id, "*") \o ":" \o query \o ":" \o ToString(limit)

\* A serialization that loses the score.
ToJsonLossy(results) ==
    <<"json", [k \in 1..Len(results) |-> [results[k] EXCEPT !.score = 0]]>>

\* serde_json::to_string and serde_json::from_str::<Vec<SearchResult>>
ToJson(results) == <<"json", results>>
FromJson(s) == IF Len(s) = 2 /\ s[1] = "json" THEN Some(s[2]) ELSE None

\* exp(-age_days / 30) in thousandths, the age in periods of 30 days.
ExpNeg(periods) ==
    CASE periods = 0 -> 1000
      [] periods = 1 -> 368
      [] periods = 2 -> 135
      [] periods = 3 -> 50
      [] periods = 4 -> 18
      [] periods = 5 -> 7
      [] OTHER -> 0

\* recency_score: the age is num_seconds().max(0), the result clamp(0.0, 1.0);
\* in thousandths.
recency_score(created_at, now) ==
    Min(Max(ExpNeg(Max(now - created_at, 0)), 0), 1000)

\* A score rounded down to a whole number.
compute_combined_score_whole(importance, created_at, now) ==
    ((importance * ImportanceWeight * 100 + recency_score(created_at, now) * RecencyWeight)
       \div 10000) * 10000

\* compute_combined_score: importance * 0.6 + recency * 0.4, in ten-thousandths
\* (importance is in tenths, recency in thousandths).
compute_combined_score(importance, created_at, now) ==
    importance * ImportanceWeight * 100 + recency_score(created_at, now) * RecencyWeight

\* The multi_match clause, and the term clause on user_id when one is given.
Matches(doc, query, user_id) ==
    /\ \/ doc.content = query
       \/ doc.summary = Some(query)
       \/ \E k \in 1..Len(doc.tags) : doc.tags[k] = query
    /\ IsSome(user_id) => doc.user_id = user_id

\* The orders of the elements of S: the relevance order is the engine's.
AnyOrder(S) ==
    { s \in [1..Cardinality(S) -> S] : \A i, j \in 1..Cardinality(S) : i # j => s[i] # s[j] }

\* OpenSearchClient::search: the hits, at most size of them.
OsSearch(query, user_id, size) ==
    LET hits == { k \in DOMAIN os : Matches(os[k], query, user_id) }
    IN  { [k \in 1..Min(size, Len(s)) |-> os[s[k]]] : s \in AnyOrder(hits) }

\* docs.iter().filter_map(|d| Uuid::parse_str(&d.id).ok()).collect()
RECURSIVE FilterMapIds(_)
FilterMapIds(docs) ==
    IF docs = <<>> THEN <<>>
    ELSE (IF IsSome(UuidParseStr(Head(docs).id))
          THEN <<Unwrap(UuidParseStr(Head(docs).id))>> ELSE <<>>)
         \o FilterMapIds(Tail(docs))

\* SELECT ... FROM memory_index WHERE id = ANY($1)
PgSelectAny(ids) ==
    { pg[i] : i \in { ids[k] : k \in 1..Len(ids) } \cap DOMAIN pg }

\* A candidate scored with the importance mirrored in its document.
ScoreCandidateFromDocument(doc, index_data, now) ==
    LET id == Unwrap(UuidParseStr(doc.id))
        found == { i \in index_data : i.id = id }
        importance == IF found = {} THEN FallbackImportance ELSE doc.importance_score
        created_at == IF found = {} THEN now ELSE (CHOOSE i \in found : TRUE).created_at
    IN  [id |-> id, content |-> doc.content, summary |-> doc.summary, tags |-> doc.tags,
         importance_score |-> importance, created_at |-> created_at,
         score |-> compute_combined_score(importance, created_at, now)]

\* A candidate without an index row scored as if its importance were the least.
ScoreCandidateNoFallback(doc, index_data, now) ==
    LET id == Unwrap(UuidParseStr(doc.id))
        found == { i \in index_data : i.id = id }
        importance == IF found = {} THEN ImportanceMin
                      ELSE (CHOOSE i \in found : TRUE).importance_score
        created_at == IF found = {} THEN now ELSE (CHOOSE i \in found : TRUE).created_at
    IN  [id |-> id, content |-> doc.content, summary |-> doc.summary, tags |-> doc.tags,
         importance_score |-> importance, created_at |-> created_at,
         score |-> compute_combined_score(importance, created_at, now)]

\* One candidate: the metadata of its index row, or 0.5 and now without one.
ScoreCandidate(doc, index_data, now) ==
    LET id == Unwrap(UuidParseStr(doc.id))
        found == { i \in index_data : i.id = id }
        importance == IF found = {} THEN FallbackImportance
                      ELSE (CHOOSE i \in found : TRUE).importance_score
        created_at == IF found = {} THEN now ELSE (CHOOSE i \in found : TRUE).created_at
    IN  [id |-> id, content |-> doc.content, summary |-> doc.summary, tags |-> doc.tags,
         importance_score |-> importance, created_at |-> created_at,
         score |-> compute_combined_score(importance, created_at, now)]

\* docs.iter().filter_map(|doc| ..).collect()
RECURSIVE ScoreCandidates(_, _, _)
ScoreCandidates(docs, index_data, now) ==
    IF docs = <<>> THEN <<>>
    ELSE (IF IsSome(UuidParseStr(Head(docs).id))
          THEN <<ScoreCandidate(Head(docs), index_data, now)>> ELSE <<>>)
         \o ScoreCandidates(Tail(docs), index_data, now)

\* A sort step that puts r before the elements of equal score.
RECURSIVE InsertByScoreUnstable(_, _)
InsertByScoreUnstable(sorted, r) ==
    IF sorted = <<>> THEN <<r>>
    ELSE IF Head(sorted).score > r.score
         THEN <<Head(sorted)>> \o InsertByScoreUnstable(Tail(sorted), r)
         ELSE <<r>> \o sorted

\* One step of the stable sort: r goes behind every element whose score is
\* not smaller than its own.
RECURSIVE InsertByScore(_, _)
InsertByScore(sorted, r) ==
    IF sorted = <<>> THEN <<r>>
    ELSE IF Head(sorted).score >= r.score
         THEN <<Head(sorted)>> \o InsertByScore(Tail(sorted), r)
         ELSE <<r>> \o sorted

\* results.sort_by(|a, b| b.score.partial_cmp(&a.score)..): stable, descending.
RECURSIVE SortByScore(_)
SortByScore(results) ==
    IF results = <<>> THEN <<>>
    ELSE InsertByScore(SortByScore(SubSeq(results, 1, Len(results) - 1)),
                       results[Len(results)])

\* Combine and score, sort, truncate.
RankedResults(docs, index_data, now, limit) ==
    Truncate(SortByScore(ScoreCandidates(docs, index_data, now)), limit)

SearchResponse(query, results) ==
    [ok |-> TRUE, type |-> "memory.search.result", query |-> query, results |-> results]

\* if let Some(mut redis_conn) = state.redis.clone(): the HTTP front-end only.
UsesCache(frontend) == frontend = "http" /\ redis.conn

\* The limit is clamped, the cache key built from it.
SearchStart(p, frontend, query, limit, user_id) ==
    /\ Accept(p, [type |-> "memory.search", frontend |-> frontend, query |-> query,
                  limit |-> limit, user_id |-> user_id],
              IF UsesCache(frontend) THEN "search_cache_get" ELSE "search_os")
    /\ loc' = [loc EXCEPT ![p] =
                 [id |-> 0, limit |-> SearchLimit(frontend, limit),
                  size |-> SearchLimit(frontend, limit) * CandidateFactor,
                  cache_key |-> CacheKey(user_id, query, SearchLimit(frontend, limit)),
                  docs |-> <<>>, results |-> <<>>]]
    /\ UNCHANGED <<pg, os, clock, nextId, outcome, redis, computed>>

\* A memory.search request arrives.
SearchBegin(p, frontend, query, limit, user_id) ==
    /\ frontend \in SearchFrontends
    /\ query \in SearchQueries
    /\ limit \in SearchLimits
    /\ user_id \in (IF frontend = "http" THEN SearchOwners ELSE {None})
    /\ SearchStart(p, frontend, query, limit, user_id)

\* A lookup that answers with the empty list when the value does not parse.
CacheLookupLenient(key, ok) ==
    IF ok /\ key \in DOMAIN redis.data
    THEN Some(UnwrapOr(FromJson(redis.data[key].value), <<>>))
    ELSE None

\* if let Ok(cached) = get(..) { if let Ok(cached_results) = from_str(..) { return } }
CacheLookup(key, ok) ==
    IF ok /\ key \in DOMAIN redis.data THEN FromJson(redis.data[key].value) ELSE None

\* A cache read that is tried again for as long as it fails.
SearchCacheGetRetrying(p) ==
    /\ pc[p] = "search_cache_get"
    /\ \E ok \in CallOutcomes :
         /\ Call(p, "redis.get", ok)
         /\ IF ~ok
            THEN UNCHANGED <<pc, resp>>
            ELSE IF IsSome(CacheLookup(loc[p].cache_key, ok))
                 THEN Return(p, SearchResponse(req[p].query, Unwrap(CacheLookup(loc[p].cache_key, ok))))
                 ELSE Goto(p, "search_os")
    /\ UNCHANGED <<pg, os, clock, nextId, req, loc, before, outcome, served, redis, computed>>

\* 1. The cache read: a hit returns at once.
SearchCacheGet(p) ==
    /\ pc[p] = "search_cache_get"
    /\ \E ok \in CallOutcomes :
         /\ Call(p, "redis.get", ok)
         /\ IF IsSome(CacheLookup(loc[p].cache_key, ok))
            THEN Return(p, SearchResponse(req[p].query, Unwrap(CacheLookup(loc[p].cache_key, ok))))
            ELSE Goto(p, "search_os")
    /\ UNCHANGED <<pg, os, clock, nextId, req, loc, before, outcome, served, redis, computed>>

\* After the ranking: the cache write when there is a connection, or the result.
SearchAfterRanking(p) == IF UsesCache(req[p].frontend) THEN "search_cache_set" ELSE "return"

SearchRanked(p, results) ==
    /\ loc' = [loc EXCEPT ![p].results = results]
    /\ IF SearchAfterRanking(p) = "return"
       THEN Return(p, SearchResponse(req[p].query, results))
       ELSE Goto(p, SearchAfterRanking(p))

\* search(..).await.unwrap_or_default()
SearchDocs(ok, docs) == IF ok THEN docs ELSE <<>>

\* 2. The document search; without candidate ids the index is not asked.
SearchDocuments(p) ==
    /\ pc[p] = "search_os"
    /\ \E ok \in CallOutcomes :
         \E docs \in OsSearch(req[p].query, req[p].user_id, loc[p].size) :
            /\ Call(p, "os.search", ok)
            /\ IF FilterMapIds(SearchDocs(ok, docs)) = <<>>
               THEN SearchRanked(p, RankedResults(SearchDocs(ok, docs), {}, clock, loc[p].limit))
               ELSE /\ loc' = [loc EXCEPT ![p].docs = SearchDocs(ok, docs)]
                    /\ Goto(p, "search_pg")
    /\ UNCHANGED <<pg, os, clock, nextId, req, before, outcome, served, redis, computed>>

\* fetch_all(..).await.unwrap_or_default()
SearchIndexData(ok, ids) == IF ok THEN PgSelectAny(ids) ELSE {}

\* 3. The batch lookup of the candidates' rows, then score, sort and truncate.
SearchIndex(p) ==
    /\ pc[p] = "search_pg"
    /\ \E ok \in CallOutcomes :
         /\ Call(p, "pg.select", ok)
         /\ SearchRanked(p, RankedResults(loc[p].docs,
                                          SearchIndexData(ok, FilterMapIds(loc[p].docs)),
                                          clock, loc[p].limit))
    /\ UNCHANGED <<pg, os, clock, nextId, req, before, outcome, served, redis, computed>>

\* A cache write whose failure reaches the caller.
SearchCacheSetSurfacing(p) ==
    /\ pc[p] = "search_cache_set"
    /\ \E ok \in CallOutcomes :
         /\ Call(p, "redis.set", ok)
         /\ redis' = IF ok
                     THEN [redis EXCEPT !.data = (loc[p].cache_key :>
                              [value |-> ToJson(loc[p].results), ttl |-> CacheTtl]) @@ @]
                     ELSE redis
         /\ computed' = IF ok THEN (loc[p].cache_key :> loc[p].results) @@ computed
                        ELSE computed
         /\ IF ok THEN Return(p, SearchResponse(req[p].query, loc[p].results))
            ELSE Return(p, HttpError("INTERNAL_ERROR", "cache write failed"))
    /\ UNCHANGED <<pg, os, clock, nextId, req, loc, before, outcome, served>>

\* 4. set_ex(&cache_key, json, 300), its result dropped; then the result.
SearchCacheSet(p) ==
    /\ pc[p] = "search_cache_set"
    /\ \E ok \in CallOutcomes :
         /\ Call(p, "redis.set", ok)
         /\ redis' = IF ok
                     THEN [redis EXCEPT !.data = (loc[p].cache_key :>
                              [value |-> ToJson(loc[p].results), ttl |-> CacheTtl]) @@ @]
                     ELSE redis
         /\ computed' = IF ok THEN (loc[p].cache_key :> loc[p].results) @@ computed
                        ELSE computed
    /\ Return(p, SearchResponse(req[p].query, loc[p].results))
    /\ UNCHANGED <<pg, os, clock, nextId, req, loc, before, outcome, served>>

\* Redis drops a key once its TTL has run out.
RedisExpire(key) ==
    /\ key \in DOMAIN redis.data
    /\ redis' = [redis EXCEPT !.data = [k \in (DOMAIN @) \ {key} |-> @[k]]]
    /\ computed' = [k \in (DOMAIN computed) \ {key} |-> computed[k]]
    /\ UNCHANGED <<pg, os, clock, nextId, pc, req, loc, resp, calls, before, outcome, served>>

\* -------------------------------------------------------- specifications
\* The first request slot: a single caller issuing one request at a time.
Caller == CHOOSE p \in Procs : \A q \in Procs : p <= q

\* A step of a handler that is running in slot p.
Step(p) ==
    \/ SaveInsert(p)
    \/ SaveIndexDocument(p)
    \/ SaveRollback(p)
    \/ UpdatePg(p)
    \/ UpdateGetDocument(p)
    \/ UpdateIndexDocument(p)
    \/ DeletePg(p)
    \/ DeleteDocument(p)
    \/ GetDocument(p)
    \/ GetIndex(p)
    \/ ListPostgres(p)
    \/ ListOpensearch(p)
    \/ ListAllIndex(p)
    \/ ListAllDocument(p)

\* A request arrives in slot p.
Begin(p) ==
    \/ \E r \in SaveRequests : SaveBegin(p, r)
    \/ \E id \in Ids, f \in UpdateFields : UpdateBegin(p, id, f)
    \/ \E id \in Ids : DeleteBegin(p, id)
    \/ \E id \in Ids : GetBegin(p, id)
    \/ \E limit \in ListLimits, user_id \in ListOwners, source \in ListSources :
         ListBegin(p, limit, user_id, source)

\* Requests one after the other.
Next ==
    \/ Tick
    \/ Begin(Caller)
    \/ Step(Caller)

Spec == Init /\ [][Next]_vars

\* Requests of all slots interleaved at their awaits.
NextConcurrent ==
    \/ Tick
    \/ \E p \in Procs : Begin(p)
    \/ \E p \in Procs : Step(p)

SpecConcurrent == Init /\ [][NextConcurrent]_vars

\* Searches of a caller over stores that earlier Saves, Updates and Deletes
\* have left: per id a row or none, a document or none (a document without a
\* row is what a Delete leaves whose delete_document failed, a row without a
\* document what a Save leaves whose rollback failed).
OwnerOf(id) == IF id = 1 THEN Some("u1") ELSE None

SearchRowChoices ==
    { None,
      Some([importance_score |-> 9, created_at |-> MaxAge]),
      Some([importance_score |-> 1, created_at |-> 0]) }

StoredRow(id, c) ==
    [id |-> id, user_id |-> OwnerOf(id), summary |-> None,
     importance_score |-> c.importance_score, tags |-> <<>>,
     created_at |-> c.created_at, updated_at |-> c.created_at]

\* The document's importance is the one of its Save: an Update whose document
\* write failed has left it behind the row's.
StoredDocument(id, c) ==
    [id |-> UuidToString(id), user_id |-> OwnerOf(id), content |-> "q", summary |-> None,
     importance_score |-> 3, tags |-> <<>>,
     created_at |-> ToRfc3339(IF IsSome(c) THEN Unwrap(c).created_at ELSE 0),
     updated_at |-> ToRfc3339(IF IsSome(c) THEN Unwrap(c).created_at ELSE 0)]

\* What Redis holds at the start: nothing, or under one search key a value
\* that is no result list.
RedisChoices ==
    { <<>>,
      (CacheKey(None, "q", DefaultSearchLimit) :> [value |-> "not json", ttl |-> CacheTtl]) }

InitSearch ==
    /\ \E rows \in [Ids -> SearchRowChoices], docs \in [Ids -> BOOLEAN] :
         /\ pg = [i \in { j \in Ids : IsSome(rows[j]) } |-> StoredRow(i, Unwrap(rows[i]))]
         /\ os = [k \in { UuidToString(j) : j \in { i \in Ids : docs[i] } } |->
                    StoredDocument(k[2], rows[k[2]])]
    /\ clock = MaxAge
    /\ nextId = MaxIds + 1
    /\ pc = [p \in Procs |-> "idle"]
    /\ req = [p \in Procs |-> NoReq]
    /\ loc = [p \in Procs |-> NoLoc]
    /\ resp = [p \in Procs |-> None]
    /\ calls = [p \in Procs |-> <<>>]
    /\ before = [p \in Procs |-> [pg |-> <<>>, os |-> <<>>]]
    /\ outcome = [i \in Ids |-> [save |-> "none", input |-> NoReq, changed |-> FALSE,
                                 deleted |-> 0]]
    /\ served = 0
    /\ \E conn \in BOOLEAN, data \in RedisChoices :
         /\ conn \/ data = <<>>
         /\ redis = [conn |-> conn, data |-> data]
    /\ computed = <<>>

SearchStep(p) ==
    \/ SearchCacheGet(p)
    \/ SearchDocuments(p)
    \/ SearchIndex(p)
    \/ SearchCacheSet(p)

\* One caller: searches, and Deletes between them; Redis expires keys on its own.
NextSearch ==
    \/ \E frontend \in SearchFrontends, query \in SearchQueries, limit \in SearchLimits,
          user_id \in SearchOwners : SearchBegin(Caller, frontend, query, limit, user_id)
    \/ SearchStep(Caller)
    \/ \E id \in Ids : DeleteBegin(Caller, id)
    \/ DeletePg(Caller)
    \/ DeleteDocument(Caller)
    \/ \E key \in DOMAIN redis.data : RedisExpire(key)

SpecSearch == InitSearch /\ [][NextSearch]_vars

\* One caller issuing the read operations only: Search, Get and List.
NextReads ==
    \/ \E frontend \in SearchFrontends, query \in SearchQueries, limit \in SearchLimits,
          user_id \in SearchOwners : SearchBegin(Caller, frontend, query, limit, user_id)
    \/ SearchStep(Caller)
    \/ \E id \in Ids : GetBegin(Caller, id)
    \/ GetDocument(Caller)
    \/ GetIndex(Caller)
    \/ \E limit \in ListLimits, user_id \in ListOwners, source \in ListSources :
         ListBegin(Caller, limit, user_id, source)
    \/ ListPostgres(Caller)
    \/ ListOpensearch(Caller)
    \/ ListAllIndex(Caller)
    \/ ListAllDocument(Caller)

SpecReads == InitSearch /\ [][NextReads]_vars

\* Saves of several callers at once: the store calls of the handlers
\* interleave in every order.
SaveStep(p) ==
    \/ SaveInsert(p)
    \/ SaveIndexDocument(p)
    \/ SaveRollback(p)

NextSaves ==
    \/ Tick
    \/ \E p \in Procs : \E r \in SaveRequests : SaveBegin(p, r)
    \/ \E p \in Procs : SaveStep(p)

SpecSaves == Init /\ [][NextSaves]_vars


\* Updates and Deletes of several callers at once, on records that a caller
\* has saved: their store calls interleave in every order.
UpdateStep(p) ==
    \/ UpdatePg(p)
    \/ UpdateGetDocument(p)
    \/ UpdateIndexDocument(p)

DeleteStep(p) ==
    \/ DeletePg(p)
    \/ DeleteDocument(p)

NextRace ==
    \/ Tick
    \/ \E r \in SaveRequests : SaveBegin(Caller, r)
    \/ SaveStep(Caller)
    \/ \E p \in Procs : \E id \in Ids, f \in UpdateFields : UpdateBegin(p, id, f)
    \/ \E p \in Procs : UpdateStep(p)
    \/ \E p \in Procs : \E id \in Ids : DeleteBegin(p, id)
    \/ \E p \in Procs : DeleteStep(p)

SpecRace == Init /\ [][NextRace]_vars

\* One caller sending memory.save bodies, well-formed or not.
NextBodies ==
    \/ Tick
    \/ \E body \in SaveBodies : SaveReceive(Caller, body)
    \/ SaveStep(Caller)

SpecBodies == Init /\ [][NextBodies]_vars

\* One caller issuing all six operations, every call of a handler answered
\* sooner or later with success or failure: the handler then takes its next
\* step. One record is stored already; Redis is connected or not.
InitAll ==
    /\ pg = (1 :> StoredRow(1, [importance_score |-> 9, created_at |-> 0]))
    /\ os = (UuidToString(1) :>
               StoredDocument(1, Some([importance_score |-> 9, created_at |-> 0])))
    /\ clock = 0
    /\ nextId = 2
    /\ pc = [p \in Procs |-> "idle"]
    /\ req = [p \in Procs |-> NoReq]
    /\ loc = [p \in Procs |-> NoLoc]
    /\ resp = [p \in Procs |-> None]
    /\ calls = [p \in Procs |-> <<>>]
    /\ before = [p \in Procs |-> [pg |-> <<>>, os |-> <<>>]]
    /\ outcome = [i \in Ids |-> [save |-> "none", input |-> NoReq, changed |-> FALSE,
                                 deleted |-> 0]]
    /\ served = 0
    /\ \E conn \in BOOLEAN : redis = [conn |-> conn, data |-> <<>>]
    /\ computed = <<>>

StepAll(p) == Step(p) \/ SearchStep(p)

NextAll ==
    \/ Begin(Caller)
    \/ \E frontend \in SearchFrontends, query \in SearchQueries, limit \in SearchLimits,
          user_id \in SearchOwners : SearchBegin(Caller, frontend, query, limit, user_id)
    \/ StepAll(Caller)

SpecAll == InitAll /\ [][NextAll]_vars /\ WF_vars(StepAll(Caller))

\* Searches of one caller with limits of every kind: absent, zero, inside
\* the range, at and above the maximum of either front-end. Both records are
\* stored, so that a limit of one cuts the result.
RequestedLimits ==
    { None, Some(0), Some(1), Some(MaxToolSearchLimit), Some(MaxToolSearchLimit + 1),
      Some(MaxSearchLimit), Some(MaxSearchLimit + 1), Some(MaxSearchLimit * MaxSearchLimit) }

InitLimits ==
    /\ pg = [i \in Ids |-> StoredRow(i, [importance_score |-> 9, created_at |-> MaxAge])]
    /\ os = [k \in { UuidToString(i) : i \in Ids } |->
               StoredDocument(k[2], Some([importance_score |-> 9, created_at |-> MaxAge]))]
    /\ clock = MaxAge
    /\ nextId = MaxIds + 1
    /\ pc = [p \in Procs |-> "idle"]
    /\ req = [p \in Procs |-> NoReq]
    /\ loc = [p \in Procs |-> NoLoc]
    /\ resp = [p \in Procs |-> None]
    /\ calls = [p \in Procs |-> <<>>]
    /\ before = [p \in Procs |-> [pg |-> <<>>, os |-> <<>>]]
    /\ outcome = [i \in Ids |-> [save |-> "none", input |-> NoReq, changed |-> FALSE,
                                 deleted |-> 0]]
    /\ served = 0
    /\ \E conn \in BOOLEAN : redis = [conn |-> conn, data |-> <<>>]
    /\ computed = <<>>

NextLimits ==
    \/ \E frontend \in SearchFrontends, limit \in RequestedLimits :
          SearchStart(Caller, frontend, "q", limit, None)
    \/ SearchStep(Caller)

SpecLimits == InitLimits /\ [][NextLimits]_vars

\* ------------------------------------------------------------ properties
\* Slot p holds the response of a request of the given type.
Done(p, type) == pc[p] = "idle" /\ resp[p] # None /\ req[p].type = type
Reply(p) == Unwrap(resp[p])
Key(id) == UuidToString(id)
CallFailed(p) == \E k \in 1..Len(calls[p]) : ~calls[p][k][2]
LastCall(p) == calls[p][Len(calls[p])]
Clamped(v) == Min(ImportanceMax, Max(ImportanceMin, v))
ListedIn(p, id) == \E k \in 1..Len(Reply(p).memories) : Reply(p).memories[k].id = id

\* The Save of id returned its error after the document write failed.
SaveContentFailed(id) ==
    outcome[id].save \in {"content_failed_rolled_back", "content_failed_orphaned"}

\* C1 as stated: once a Save whose document write failed has returned, the
\* index store holds no row of the attempted id, Get returns nothing for it
\* and no List returns it.
C1_FailedSaveLeavesNothing ==
    \A id \in Ids : SaveContentFailed(id) =>
        /\ ~PgHas(id)
        /\ FullMemory(OsGet(Key(id)), PgGet(id)) = None
        /\ \A p \in Procs : Done(p, "memory.get") /\ req[p].id = id => Reply(p).memory = None
        /\ \A p \in Procs : Done(p, "memory.list") => ~ListedIn(p, id)

\* C1, amended: once a Save whose document write failed has returned, no
\* document of the attempted id exists and Get returns nothing for it; the
\* index row is gone when the rollback delete succeeded, and then no List
\* returns the id; when the rollback delete failed the row stays until an
\* Update or Delete reaches it, and only the "postgres" and "all" lists
\* return it, with no content.
C1_FailedSaveNotRetrievable ==
    \A id \in Ids : SaveContentFailed(id) =>
        /\ ~OsHas(Key(id))
        /\ FullMemory(OsGet(Key(id)), PgGet(id)) = None
        /\ outcome[id].save = "content_failed_rolled_back" => ~PgHas(id)
        /\ outcome[id].save = "content_failed_orphaned" /\ ~outcome[id].changed => PgHas(id)
        /\ \A p \in Procs : Done(p, "memory.get") /\ req[p].id = id => Reply(p).memory = None
        /\ \A p \in Procs : Done(p, "memory.list") =>
             \A k \in 1..Len(Reply(p).memories) :
                Reply(p).memories[k].id = id =>
                    /\ outcome[id].save = "content_failed_orphaned"
                    /\ Reply(p).source # "opensearch"
                    /\ Reply(p).memories[k].content = None

C1_Witness ==
    \E id \in Ids :
        /\ SaveContentFailed(id)
        /\ Done(Caller, "memory.get") /\ req[Caller].id = id /\ ~CallFailed(Caller)

\* A Delete has removed the index row of id.
IndexRemovedByDelete(id) ==
    outcome[id].deleted > 0 \/ \E p \in Procs : pc[p] = "delete_os" /\ loc[p].id = id

\* C2: every id whose Save reported success, and whose row no Delete has
\* removed, has its row in the index store; a Save that reports success has
\* inserted the row and has not rolled it back.
C2_SavedHasIndexEntry ==
    /\ \A id \in Ids :
         outcome[id].save = "ok" /\ ~IndexRemovedByDelete(id) => PgHas(id) /\ pg[id].id = id
    /\ \A p \in Procs :
         Done(p, "memory.save") /\ Reply(p).ok =>
            calls[p] = << <<"pg.insert", TRUE>>, <<"os.index", TRUE>> >>

C2_Witness ==
    \E id, other \in Ids :
        /\ outcome[id].save = "ok" /\ PgHas(id)
        /\ outcome[other].save = "content_failed_rolled_back"

\* What a successful Save of slot p must have left in both stores.
SaveStored(p) ==
    LET id == loc[p].id
    IN  /\ PgHas(id) /\ OsHas(Key(id))
        /\ pg[id].summary = req[p].summary /\ os[Key(id)].summary = req[p].summary
        /\ pg[id].user_id = req[p].user_id /\ os[Key(id)].user_id = req[p].user_id
        /\ pg[id].tags = UnwrapOr(req[p].tags, <<>>)
        /\ os[Key(id)].tags = UnwrapOr(req[p].tags, <<>>)
        /\ pg[id].importance_score = Clamped(UnwrapOr(req[p].importance, DefaultImportance))
        /\ os[Key(id)].importance_score = pg[id].importance_score
        /\ os[Key(id)].content = req[p].content
        /\ pg[id].updated_at = pg[id].created_at
        /\ os[Key(id)].created_at = ToRfc3339(pg[id].created_at)
        /\ os[Key(id)].updated_at = ToRfc3339(pg[id].created_at)
        /\ req[p].frontend = "http" => pg[id].created_at = Reply(p).created_at

\* The index row shows the Update of slot p: the fields it carries, the rest
\* as before, and the updated_at it returned.
UpdateInIndex(p) ==
    LET id == req[p].id
        old == before[p].pg[id]
    IN  /\ PgHas(id)
        /\ pg[id].updated_at = Reply(p).updated_at
        /\ pg[id].summary = IF IsSome(req[p].summary) THEN req[p].summary ELSE old.summary
        /\ pg[id].importance_score = IF IsSome(req[p].importance)
                                     THEN Clamped(Unwrap(req[p].importance))
                                     ELSE old.importance_score
        /\ pg[id].tags = IF IsSome(req[p].tags) THEN Unwrap(req[p].tags) ELSE old.tags
        /\ pg[id].user_id = old.user_id /\ pg[id].created_at = old.created_at

\* The document shows the Update of slot p.
UpdateInDocument(p) ==
    LET key == Key(req[p].id)
    IN  /\ OsHas(key)
        /\ os[key].updated_at = ToRfc3339(Reply(p).updated_at)
        /\ IsSome(req[p].content) => os[key].content = Unwrap(req[p].content)
        /\ IsSome(req[p].summary) => os[key].summary = req[p].summary
        /\ IsSome(req[p].importance) =>
              os[key].importance_score = Clamped(Unwrap(req[p].importance))
        /\ IsSome(req[p].tags) => os[key].tags = Unwrap(req[p].tags)

\* C3 as stated: a write that returns success shows in both stores, and a
\* Save that returns failure leaves a record of the attempted id in neither.
C3_WritesAtomic ==
    \A p \in Procs :
        /\ Done(p, "memory.save") /\ Reply(p).ok => SaveStored(p)
        /\ Done(p, "memory.save") /\ ~Reply(p).ok =>
              ~PgHas(loc[p].id) /\ ~OsHas(Key(loc[p].id))
        /\ Done(p, "memory.update") /\ Reply(p).ok => UpdateInIndex(p) /\ UpdateInDocument(p)
        /\ Done(p, "memory.delete") /\ Reply(p).ok =>
              ~PgHas(req[p].id) /\ ~OsHas(Key(req[p].id))

\* C3, amended: a Save that returns success shows in both stores; a Save that
\* returns failure leaves no document of the attempted id, and no index row
\* unless its rollback delete failed; an Update or Delete that returns
\* success shows in the index store, and in the document store when its
\* document call (the upsert of Update, the delete of Delete) succeeded.
C3_WritesIndexFirst ==
    \A p \in Procs :
        /\ Done(p, "memory.save") /\ Reply(p).ok => SaveStored(p)
        /\ Done(p, "memory.save") /\ ~Reply(p).ok =>
              /\ ~OsHas(Key(loc[p].id))
              /\ LastCall(p) # <<"pg.delete", FALSE>> => ~PgHas(loc[p].id)
        /\ Done(p, "memory.update") /\ Reply(p).ok =>
              /\ UpdateInIndex(p)
              /\ LastCall(p) = <<"os.index", TRUE>> => UpdateInDocument(p)
        /\ Done(p, "memory.delete") /\ Reply(p).ok =>
              /\ ~PgHas(req[p].id)
              /\ LastCall(p) = <<"os.delete", TRUE>> => ~OsHas(Key(req[p].id))

C3_Witness ==
    /\ Done(Caller, "memory.update") /\ Reply(Caller).ok
    /\ LastCall(Caller) = <<"os.index", FALSE>>
    /\ IsSome(req[Caller].content)
    /\ os[Key(req[Caller].id)].content # Unwrap(req[Caller].content)

\* C4: a Save whose index insert fails has returned an error after that one
\* call, and both stores are as they were when the request arrived.
C4_IndexFailureIsFatal ==
    \A p \in Procs :
        req[p].type = "memory.save" /\ calls[p] # <<>> /\ calls[p][1] = <<"pg.insert", FALSE>> =>
            /\ pc[p] = "idle" /\ resp[p] # None /\ ~Reply(p).ok
            /\ Len(calls[p]) = 1
            /\ pg = before[p].pg /\ os = before[p].os

C4_Witness ==
    /\ Done(Caller, "memory.save") /\ calls[Caller] = << <<"pg.insert", FALSE>> >>
    /\ before[Caller].pg # <<>> /\ before[Caller].os # <<>>

\* C5: every importance_score in either store lies in [0, 1]; a Save or an
\* Update writes min(1, max(0, v)) for its input v (the default when Save has
\* none), to the index row and to the document whenever it writes it; no
\* request is refused for its importance: an error comes from a failed store
\* call or a missing row only.
C5_ImportanceClamped ==
    /\ \A id \in DOMAIN pg : pg[id].importance_score \in ImportanceMin..ImportanceMax
    /\ \A key \in DOMAIN os : os[key].importance_score \in ImportanceMin..ImportanceMax
    /\ \A p \in Procs :
         /\ Done(p, "memory.save") /\ Reply(p).ok =>
               /\ pg[loc[p].id].importance_score =
                     Clamped(UnwrapOr(req[p].importance, DefaultImportance))
               /\ os[Key(loc[p].id)].importance_score =
                     Clamped(UnwrapOr(req[p].importance, DefaultImportance))
         /\ Done(p, "memory.update") /\ Reply(p).ok /\ IsSome(req[p].importance) =>
               /\ pg[req[p].id].importance_score = Clamped(Unwrap(req[p].importance))
               /\ LastCall(p) = <<"os.index", TRUE>> =>
                     os[Key(req[p].id)].importance_score = Clamped(Unwrap(req[p].importance))
         /\ (Done(p, "memory.save") \/ Done(p, "memory.update")) /\ ~Reply(p).ok =>
               CallFailed(p) \/ Reply(p).status = "NOT_FOUND"

C5_Witness ==
    /\ Done(Caller, "memory.update") /\ Reply(Caller).ok
    /\ req[Caller].importance = Some(12)
    /\ LastCall(Caller) = <<"os.index", TRUE>>
    /\ pg[req[Caller].id].importance_score = ImportanceMax
    /\ os[Key(req[Caller].id)].importance_score = ImportanceMax
    /\ \E id \in Ids : outcome[id].input # NoReq /\ outcome[id].input.importance = Some(-5)
                       /\ PgHas(id) /\ pg[id].importance_score = ImportanceMin

\* Slot p holds the answer of a Get, neither lookup of which failed, on an id
\* whose Save reported success and which no Update or Delete has reached since.
GetAfterSave(p) ==
    /\ Done(p, "memory.get") /\ ~CallFailed(p)
    /\ outcome[req[p].id].save = "ok" /\ ~outcome[req[p].id].changed

\* C6 as stated: Get after a successful Save returns the Save's input on
\* every field the caller supplied.
C6_RoundTripExact ==
    \A p \in Procs : GetAfterSave(p) =>
        LET input == outcome[req[p].id].input
            m == Reply(p).memory
        IN  /\ m # None
            /\ Unwrap(m).content = input.content
            /\ Unwrap(m).summary = input.summary
            /\ Unwrap(m).user_id = input.user_id
            /\ IsSome(input.tags) => Unwrap(m).tags = Unwrap(input.tags)
            /\ IsSome(input.importance) => Unwrap(m).importance_score = Unwrap(input.importance)

\* C6, amended: Get after a successful Save returns the Save's content,
\* summary, tags and owner as supplied, and its importance clamped to [0, 1]
\* (a field that was not supplied reads as its default).
C6_RoundTripClamped ==
    \A p \in Procs : GetAfterSave(p) =>
        LET input == outcome[req[p].id].input
            m == Reply(p).memory
        IN  /\ m # None
            /\ Unwrap(m).id = req[p].id
            /\ Unwrap(m).content = input.content
            /\ Unwrap(m).summary = input.summary
            /\ Unwrap(m).user_id = input.user_id
            /\ Unwrap(m).tags = UnwrapOr(input.tags, <<>>)
            /\ Unwrap(m).importance_score =
                  Clamped(UnwrapOr(input.importance, DefaultImportance))

C6_Witness ==
    /\ GetAfterSave(Caller)
    /\ outcome[req[Caller].id].input.importance = Some(15)
    /\ outcome[req[Caller].id].input.user_id = Some("u1")
    /\ Reply(Caller).memory # None

\* C7: Get always answers Ok, with a memory exactly when the document lookup
\* and the index lookup both succeeded and both found the id; the memory
\* takes its content from the document and every other field from the row.
C7_GetNeedsBoth ==
    \A p \in Procs : Done(p, "memory.get") =>
        LET id == req[p].id
            docFound == calls[p][1] = <<"os.get", TRUE>> /\ OsHas(Key(id))
            rowFound == calls[p][2] = <<"pg.select", TRUE>> /\ PgHas(id)
            m == Reply(p).memory
        IN  /\ Reply(p).ok
            /\ Len(calls[p]) = 2
            /\ m # None <=> docFound /\ rowFound
            /\ m # None =>
                  /\ Unwrap(m).content = os[Key(id)].content
                  /\ Unwrap(m).id = id
                  /\ Unwrap(m).user_id = pg[id].user_id
                  /\ Unwrap(m).summary = pg[id].summary
                  /\ Unwrap(m).importance_score = pg[id].importance_score
                  /\ Unwrap(m).tags = pg[id].tags
                  /\ Unwrap(m).created_at = pg[id].created_at
                  /\ Unwrap(m).updated_at = pg[id].updated_at

C7_Witness ==
    /\ Done(Caller, "memory.get") /\ ~CallFailed(Caller)
    /\ OsHas(Key(req[Caller].id)) /\ ~PgHas(req[Caller].id)
    /\ Reply(Caller).memory = None

\* C8: an Update or a Delete answers Ok exactly when its index statement
\* succeeded and found the row, whatever the document calls that follow do;
\* the index store then shows the change.
C8_DocumentErrorsSwallowed ==
    \A p \in Procs :
        /\ Done(p, "memory.update") =>
              /\ Reply(p).ok <=>
                    calls[p][1] = <<"pg.update", TRUE>> /\ req[p].id \in DOMAIN before[p].pg
              /\ Reply(p).ok => UpdateInIndex(p)
        /\ Done(p, "memory.delete") =>
              /\ Reply(p).ok <=>
                    calls[p][1] = <<"pg.delete", TRUE>> /\ req[p].id \in DOMAIN before[p].pg
              /\ Reply(p).ok => ~PgHas(req[p].id)

C8_Witness ==
    /\ Done(Caller, "memory.update") /\ Reply(Caller).ok
    /\ calls[Caller] = << <<"pg.update", TRUE>>, <<"os.get", TRUE>>, <<"os.index", FALSE>> >>
    /\ pg[req[Caller].id].updated_at > before[Caller].pg[req[Caller].id].updated_at

\* C9: an Update or a Delete whose index statement finds no row of the id has
\* answered "Memory not found" after that one call, and both stores are as
\* they were when the request arrived.
C9_NotFoundTouchesNothing ==
    \A p \in Procs :
        /\ req[p].type \in {"memory.update", "memory.delete"}
        /\ calls[p] # <<>> /\ calls[p][1][2]
        /\ req[p].id \notin DOMAIN before[p].pg
        => /\ pc[p] = "idle" /\ resp[p] # None
           /\ Reply(p) = HttpError("NOT_FOUND", "Memory not found")
           /\ Len(calls[p]) = 1
           /\ pg = before[p].pg /\ os = before[p].os

C9_Witness ==
    /\ Done(Caller, "memory.update")
    /\ Reply(Caller) = HttpError("NOT_FOUND", "Memory not found")
    /\ IsSome(req[Caller].content)
    /\ OsHas(Key(req[Caller].id))

\* C10: no id has its Delete answered Ok twice; once a Delete of an id has
\* answered Ok, no later Update or Delete of that id answers Ok, and each
\* answers "Memory not found" when its index statement runs.
C10_DeleteOnce ==
    /\ \A id \in Ids : outcome[id].deleted <= 1
    /\ \A p \in Procs :
         /\ Done(p, "memory.update") /\ outcome[req[p].id].deleted > 0 =>
               /\ ~Reply(p).ok
               /\ calls[p][1][2] => Reply(p) = HttpError("NOT_FOUND", "Memory not found")
         /\ Done(p, "memory.delete") /\ outcome[req[p].id].deleted > 0 /\ ~Reply(p).ok =>
               (calls[p][1][2] => Reply(p) = HttpError("NOT_FOUND", "Memory not found"))

C10_Witness ==
    /\ Done(Caller, "memory.delete")
    /\ outcome[req[Caller].id].deleted = 1
    /\ Reply(Caller) = HttpError("NOT_FOUND", "Memory not found")

\* Slot p holds the Ok answer of an Update that carried no field.
EmptyUpdate(p) ==
    /\ Done(p, "memory.update") /\ Reply(p).ok
    /\ req[p].content = None /\ req[p].summary = None
    /\ req[p].importance = None /\ req[p].tags = None

\* C11: an Update with no field, on an existing id, leaves summary,
\* importance and tags of the index row and content, summary, importance and
\* tags of the document as they were (and creates no document); the row's
\* updated_at is the timestamp the Update read and returned, never earlier
\* than the previous one and later whenever the clock had moved past it.
C11_EmptyUpdateOnlyRefreshes ==
    \A p \in Procs : EmptyUpdate(p) =>
        LET id == req[p].id
            old == before[p].pg[id]
            olddocs == before[p].os
        IN  /\ PgHas(id)
            /\ pg[id].summary = old.summary
            /\ pg[id].importance_score = old.importance_score
            /\ pg[id].tags = old.tags
            /\ pg[id].id = old.id /\ pg[id].user_id = old.user_id
            /\ pg[id].created_at = old.created_at
            /\ OsHas(Key(id)) <=> Key(id) \in DOMAIN olddocs
            /\ OsHas(Key(id)) =>
                  /\ os[Key(id)].content = olddocs[Key(id)].content
                  /\ os[Key(id)].summary = olddocs[Key(id)].summary
                  /\ os[Key(id)].importance_score = olddocs[Key(id)].importance_score
                  /\ os[Key(id)].tags = olddocs[Key(id)].tags
            /\ pg[id].updated_at = Reply(p).updated_at
            /\ pg[id].updated_at = loc[p].now
            /\ pg[id].updated_at >= old.updated_at
            /\ loc[p].now > old.updated_at => pg[id].updated_at > old.updated_at
            /\ \A other \in DOMAIN pg : other # id => pg[other] = before[p].pg[other]

C11_Witness ==
    /\ EmptyUpdate(Caller)
    /\ LastCall(Caller) = <<"os.index", TRUE>>
    /\ pg[req[Caller].id].updated_at > before[Caller].pg[req[Caller].id].updated_at
    /\ pg[req[Caller].id].summary # None
    /\ os[Key(req[Caller].id)].updated_at = ToRfc3339(Reply(Caller).updated_at)

\* Slot p holds the answer of a Search that was answered from the cache.
AnsweredFromCache(p) ==
    Done(p, "memory.search") /\ calls[p] = << <<"redis.get", TRUE>> >>

\* C12: what Redis holds under a search key is the serialized result list
\* that a Search computed and stored there; a Search whose cache read
\* succeeds while the key is still held returns exactly that list, whatever
\* the stores hold by then; once the key has expired (or when the read
\* fails) the Search goes on to the stores.
C12_CacheHitReturnsStored ==
    [][\A p \in Procs :
         pc[p] = "search_cache_get" /\ pc'[p] # "search_cache_get" =>
            /\ \A key \in DOMAIN computed :
                 /\ key \in DOMAIN redis.data
                 /\ redis.data[key].value = ToJson(computed[key])
            /\ IF LastCall(p)' = <<"redis.get", TRUE>> /\ loc[p].cache_key \in DOMAIN computed
               THEN /\ pc'[p] = "idle"
                    /\ resp'[p] = Some(SearchResponse(req[p].query, computed[loc[p].cache_key]))
                    /\ Len(calls'[p]) = 1
               ELSE pc'[p] = "search_os" /\ resp'[p] = None]_vars

\* A Search answered from the cache with a record that a Delete has since
\* removed from both stores.
C12_Witness ==
    /\ AnsweredFromCache(Caller)
    /\ \E k \in 1..Len(Reply(Caller).results) :
         /\ ~PgHas(Reply(Caller).results[k].id)
         /\ ~OsHas(Key(Reply(Caller).results[k].id))

\* The calls of slot p that went to the two stores, the cache calls left out.
StoreCalls(p) == SelectSeq(calls[p], LAMBDA c : c[1] \notin {"redis.get", "redis.set"})

\* What a Search computes from the stores alone: the document search (nothing
\* when it failed), the rows of its candidates (none when that lookup failed).
ComputedFromStores(p, docs) ==
    RankedResults(IF StoreCalls(p)[1][2] THEN docs ELSE <<>>,
                  IF Len(StoreCalls(p)) = 2 /\ StoreCalls(p)[2][2]
                  THEN PgSelectAny(FilterMapIds(docs)) ELSE {},
                  clock, SearchLimit(req[p].frontend, req[p].limit))

\* C13: the cache is optional and best-effort. A Search that is not answered
\* from the cache (no connection, a failed read, no usable value under the
\* key) returns a result list, never an error, and the list is the one the two
\* stores determine: it is the same whichever cache calls were made and
\* whether they, the write included, succeeded or failed.
C13_CacheBestEffort ==
    \A p \in Procs :
        Done(p, "memory.search") /\ ~AnsweredFromCache(p) =>
            /\ Reply(p).ok
            /\ Len(StoreCalls(p)) \in 1..2
            /\ StoreCalls(p)[1][1] = "os.search"
            /\ \E docs \in OsSearch(req[p].query, req[p].user_id,
                                     SearchLimit(req[p].frontend, req[p].limit) * CandidateFactor) :
                  Reply(p).results = ComputedFromStores(p, docs)

\* A Search whose cache read and cache write both failed returns records.
C13_Witness ==
    /\ Done(Caller, "memory.search")
    /\ calls[Caller][1] = <<"redis.get", FALSE>>
    /\ LastCall(Caller) = <<"redis.set", FALSE>>
    /\ Reply(Caller).ok
    /\ Reply(Caller).results # <<>>

Range(s) == { s[k] : k \in 1..Len(s) }

\* A Search of slot p that went to the stores and has returned.
SearchedStores(p) == Done(p, "memory.search") /\ ~AnsweredFromCache(p)
DocumentSearchFailed(p) == <<"os.search", FALSE>> \in Range(calls[p])
IndexLookupFailed(p) == <<"pg.select", FALSE>> \in Range(calls[p])
\* The documents that match the request of slot p.
Hits(p) == { k \in DOMAIN os : Matches(os[k], req[p].query, req[p].user_id) }

\* C14 as stated: on a miss the list is empty whenever the document search
\* fails or has no matches, and also whenever the index lookup fails or has
\* no entry for the candidates.
C14_EmptyWhenEitherStoreFails ==
    \A p \in Procs :
        SearchedStores(p) =>
            /\ Reply(p).ok
            /\ \/ DocumentSearchFailed(p)
               \/ Hits(p) = {}
               \/ IndexLookupFailed(p)
               \/ \A k \in Hits(p) : ~PgHas(os[k].id[2])
               => Reply(p).results = <<>>

\* C14, amended: on a miss Search never returns an error; the list is empty
\* when the document search fails or has no matches; when the index lookup
\* fails or has no entry for a candidate, the candidate is still returned,
\* with importance 0.5, createdAt = now and the score these two give.
C14_DegradedSearch ==
    \A p \in Procs :
        SearchedStores(p) =>
            /\ Reply(p).ok
            /\ DocumentSearchFailed(p) \/ Hits(p) = {} => Reply(p).results = <<>>
            /\ ~DocumentSearchFailed(p) =>
                  /\ Len(Reply(p).results) =
                        Min(Cardinality(Hits(p)), SearchLimit(req[p].frontend, req[p].limit))
                  /\ \A k \in 1..Len(Reply(p).results) :
                        LET r == Reply(p).results[k]
                        IN  /\ Key(r.id) \in Hits(p)
                            /\ IndexLookupFailed(p) \/ ~PgHas(r.id) =>
                                  /\ r.importance_score = FallbackImportance
                                  /\ r.created_at = clock
                                  /\ r.score = FallbackImportance * ImportanceWeight * 100
                                                + 1000 * RecencyWeight

\* A Search whose index lookup failed returns a candidate that has a row.
C14_Witness ==
    /\ SearchedStores(Caller)
    /\ ~DocumentSearchFailed(Caller)
    /\ IndexLookupFailed(Caller)
    /\ \E k \in 1..Len(Reply(Caller).results) : PgHas(Reply(Caller).results[k].id)

\* Every call of the request in slot p failed.
AllCallsFailed(p) == calls[p] # <<>> /\ \A k \in 1..Len(calls[p]) : ~calls[p][k][2]

\* C15: the read operations never fail because of store failures. Whatever
\* the outcomes of the Index Store, Document Store and cache calls, Search,
\* List (postgres, opensearch, all) and Get return a success response; with
\* every call failed it is the empty list, or the absent record.
C15_ReadsNeverFail ==
    \A p \in Procs :
        /\ Done(p, "memory.search") =>
              /\ Reply(p).ok /\ Reply(p).type = "memory.search.result"
              /\ AllCallsFailed(p) => Reply(p).results = <<>>
        /\ Done(p, "memory.list") =>
              /\ Reply(p).ok /\ Reply(p).type = "memory.list.result"
              /\ AllCallsFailed(p) => Reply(p).memories = <<>>
        /\ Done(p, "memory.get") =>
              /\ Reply(p).ok /\ Reply(p).type = "memory.get.result"
              /\ AllCallsFailed(p) => Reply(p).memory = None

\* A Get of a record that is in both stores, with both stores down.
C15_Witness ==
    /\ Done(Caller, "memory.get")
    /\ calls[Caller] = << <<"os.get", FALSE>>, <<"pg.select", FALSE>> >>
    /\ PgHas(req[Caller].id) /\ OsHas(Key(req[Caller].id))
    /\ Reply(Caller).ok
    /\ Reply(Caller).memory = None

\* The candidates of the Search in slot p, in the Document Store's order, each
\* with its score; Position is a candidate's place in that order.
Candidates(p) ==
    ScoreCandidates(loc[p].docs,
                    IF IndexLookupFailed(p) THEN {} ELSE PgSelectAny(FilterMapIds(loc[p].docs)),
                    clock)
Position(p, id) == CHOOSE j \in 1..Len(Candidates(p)) : Candidates(p)[j].id = id
\* a ranks before b: a higher score, or the same score and an earlier place.
RanksBefore(p, a, b) ==
    \/ a.score > b.score
    \/ a.score = b.score /\ Position(p, a.id) < Position(p, b.id)

\* C16: on a miss the returned list holds candidates only, has
\* min(limit, number of candidates) elements, is ordered by score descending
\* with equal scores in the Document Store's order, and every candidate left
\* out ranks behind every one returned: it is the prefix of length limit of
\* the stably sorted candidate list.
C16_StableSortTruncated ==
    \A p \in Procs :
        SearchedStores(p) =>
            LET res == Reply(p).results
                limit == SearchLimit(req[p].frontend, req[p].limit)
            IN  /\ Len(res) = Min(limit, Len(Candidates(p)))
                /\ Range(res) \subseteq Range(Candidates(p))
                /\ \A i, j \in 1..Len(res) : i < j => RanksBefore(p, res[i], res[j])
                /\ \A c \in Range(Candidates(p)) \ Range(res) :
                      \A i \in 1..Len(res) : RanksBefore(p, res[i], c)

\* Two candidates of equal score and a limit of one: the one returned is the
\* first of the Document Store's response, here the one with the larger id.
C16_Witness ==
    /\ SearchedStores(Caller)
    /\ Len(Candidates(Caller)) = 2
    /\ Candidates(Caller)[1].score = Candidates(Caller)[2].score
    /\ Candidates(Caller)[1].id > Candidates(Caller)[2].id
    /\ Len(Reply(Caller).results) = 1
    /\ Reply(Caller).results[1] = Candidates(Caller)[1]

\* A candidate of importance 0.9 and age 0 days; one of importance 0.1 and
\* age 60 days (two periods of 30 days).
ImportantAndNew(c) == c.importance_score = 9 /\ clock - c.created_at = 0
MinorAndOld(c) == c.importance_score = 1 /\ clock - c.created_at = 2

\* C17: a candidate of importance 0.9 and age 0 scores 0.94, one of
\* importance 0.1 and age 60 days 0.114; the first scores strictly more, and
\* a Search that has both as candidates never returns the second without the
\* first before it, whatever their order in the Document Store's response.
C17_ImportantAndNewFirst ==
    \A p \in Procs :
        SearchedStores(p) =>
            \A a, b \in Range(Candidates(p)) :
                ImportantAndNew(a) /\ MinorAndOld(b) =>
                    /\ a.score = 9400
                    /\ b.score = 1140
                    /\ a.score > b.score
                    /\ \A j \in 1..Len(Reply(p).results) :
                          Reply(p).results[j] = b =>
                              \E i \in 1..(j - 1) : Reply(p).results[i] = a

\* Both are returned, the first on top, though the Document Store had the
\* second one first.
C17_Witness ==
    /\ SearchedStores(Caller)
    /\ Len(Candidates(Caller)) = 2
    /\ MinorAndOld(Candidates(Caller)[1])
    /\ ImportantAndNew(Candidates(Caller)[2])
    /\ Reply(Caller).results = <<Candidates(Caller)[2], Candidates(Caller)[1]>>

\* Slot p takes a step: a request arrives in it, or its handler makes a call.
Acts(p) == pc'[p] # pc[p]
\* The step leaves every index row and document other than those of id alone.
OthersUntouched(id) ==
    /\ \A i \in (DOMAIN pg \cup DOMAIN pg') \ {id} :
          i \in DOMAIN pg /\ i \in DOMAIN pg' /\ pg'[i] = pg[i]
    /\ \A k \in (DOMAIN os \cup DOMAIN os') \ {Key(id)} :
          k \in DOMAIN os /\ k \in DOMAIN os' /\ os'[k] = os[k]

\* C18: concurrent Saves do not interfere. In every interleaving a Save
\* starts with an id that no other Save holds and no store has a record for;
\* each of its steps, the compensating delete included, leaves the records of
\* all other ids as they are; and when it returns success both stores hold
\* the records built from its own input.
C18_SavesDoNotInterfere ==
    [][\A p \in Procs :
         Acts(p) =>
            /\ pc[p] = "idle" =>
                  /\ \A q \in Procs \ {p} :
                        req[q].type = "memory.save" => loc[q].id # loc'[p].id
                  /\ ~PgHas(loc'[p].id) /\ ~OsHas(Key(loc'[p].id))
            /\ OthersUntouched(loc'[p].id)
            /\ pc[p] = "save_rollback" =>
                  \A i \in DOMAIN pg \ DOMAIN pg' : i = loc[p].id
            /\ pc'[p] = "idle" /\ Unwrap(resp'[p]).ok => SaveStored(p)']_vars

\* Two Saves that overlapped: the second arrived before the first had
\* inserted its row; the first succeeded and its records are in place, the
\* second failed at the Document Store and rolled its own row back.
C18_Witness ==
    \E p, q \in Procs :
        /\ Done(p, "memory.save") /\ Done(q, "memory.save")
        /\ loc[p].id < loc[q].id
        /\ before[q].pg = <<>>
        /\ Reply(p).ok /\ SaveStored(p)
        /\ LastCall(q) = <<"pg.delete", TRUE>>
        /\ ~PgHas(loc[q].id)

\* The step is an Index Store write of slot p that the store applied.
IndexWriteApplied(p, kind) ==
    /\ Acts(p) /\ pc[p] = kind
    /\ LastCall(p)'[2]
\* What an applied UPDATE with the fields of request r at time now makes of row.
RowAfterUpdate(row, r, now) ==
    [id |-> row.id, user_id |-> row.user_id, created_at |-> row.created_at,
     summary |-> IF r.summary = None THEN row.summary ELSE r.summary,
     importance_score |-> IF r.importance = None THEN row.importance_score
                          ELSE Clamped(Unwrap(r.importance)),
     tags |-> IF r.tags = None THEN row.tags ELSE Unwrap(r.tags),
     updated_at |-> now]

\* C19: with Updates and Deletes on the same id in flight together, the index
\* row of the id changes only when the Index Store applies one of their
\* writes, and is then exactly what that write makes of the row it finds: an
\* UPDATE gives the row with the request's fields put in and its updatedAt, a
\* DELETE gives no row. So after all calls the row is what the write applied
\* last produced.
C19_LastIndexWriteWins ==
    [][\A p \in Procs :
         Acts(p) /\ req'[p].type \in {"memory.update", "memory.delete"} =>
            LET id == req'[p].id
            IN  /\ OthersUntouched(id)
                /\ IF IndexWriteApplied(p, "update_pg")
                   THEN IF PgHas(id)
                        THEN id \in DOMAIN pg' /\ pg'[id] = RowAfterUpdate(pg[id], req[p], loc[p].now)
                        ELSE id \notin DOMAIN pg'
                   ELSE IF IndexWriteApplied(p, "delete_pg")
                        THEN id \notin DOMAIN pg'
                        ELSE pg' = pg]_vars

\* An Update and a Delete of the same id that overlapped, both successful:
\* the Delete arrived before the UPDATE was applied and its DELETE came last.
C19_Witness ==
    \E p, q \in Procs :
        /\ Done(p, "memory.update") /\ Done(q, "memory.delete")
        /\ req[p].id = req[q].id
        /\ Reply(p).ok /\ Reply(q).ok
        /\ req[p].summary # None
        /\ req[q].id \in DOMAIN before[q].pg
        /\ before[q].pg[req[q].id].summary # req[p].summary
        /\ ~PgHas(req[q].id)

\* C20: a Save whose content is missing or empty is rejected before any store
\* call: it returns an error and no id, makes no call, and leaves both stores
\* as they were.
C20_EmptyContentRejected ==
    \A p \in Procs :
        Done(p, "memory.save") /\ req[p].content \in {None, ""} =>
            /\ ~Reply(p).ok
            /\ calls[p] = <<>>
            /\ pg = before[p].pg /\ os = before[p].os

\* A Save with the empty string as content has returned an id, and both
\* stores hold its record.
C20_Witness ==
    /\ Done(Caller, "memory.save")
    /\ req[Caller].content = ""
    /\ Reply(Caller).ok
    /\ Reply(Caller).id = loc[Caller].id
    /\ PgHas(loc[Caller].id)
    /\ OsHas(Key(loc[Caller].id)) /\ os[Key(loc[Caller].id)].content = ""

\* A List of slot p in combined mode has returned.
ListedCombined(p) ==
    Done(p, "memory.list") /\ UnwrapOr(req[p].source, "all") \notin {"postgres", "opensearch"}
\* The index rows the owner argument of slot p selects.
OwnerRows(p) == { i \in DOMAIN pg : req[p].user_id = None \/ pg[i].user_id = req[p].user_id }
\* The lists a metadata-only List with the arguments of slot p may return.
MetadataOnlyLists(p) ==
    { [k \in 1..Len(rows) |-> IndexListResult(rows[k], None)] :
        rows \in PgSelectPage(req[p].user_id, ListLimit(req[p].limit)) }

\* C21: a combined List whose index query succeeded returns what a
\* metadata-only List returns for the same owner and limit: the selected
\* rows, newest first, cut at the limit, none left out for want of a document.
\* The content of an entry is that of its document when the lookup found one,
\* and absent when the lookup failed or found nothing. With the index query
\* failed both modes return the empty list.
C21_CombinedListsIndexEntries ==
    \A p \in Procs :
        ListedCombined(p) =>
            LET m == Reply(p).memories
            IN  IF calls[p][1] = <<"pg.select", TRUE>>
                THEN /\ [k \in 1..Len(m) |-> [m[k] EXCEPT !.content = None]]
                          \in MetadataOnlyLists(p)
                     /\ Len(m) = Min(ListLimit(req[p].limit), Cardinality(OwnerRows(p)))
                     /\ \A i, j \in 1..Len(m) :
                           i < j => m[i].id # m[j].id /\ m[i].created_at >= m[j].created_at
                     /\ \A e \in OwnerRows(p) \ { m[k].id : k \in 1..Len(m) } :
                           \A k \in 1..Len(m) : m[k].created_at >= pg[e].created_at
                     /\ Len(calls[p]) = Len(m) + 1
                     /\ \A k \in 1..Len(m) :
                           /\ m[k].id \in OwnerRows(p)
                           /\ m[k].content =
                                 IF calls[p][k + 1] = <<"os.get", TRUE>> /\ OsHas(Key(m[k].id))
                                 THEN Some(os[Key(m[k].id)].content) ELSE None
                ELSE m = <<>>

\* Two entries listed: one with its document's content, one whose document
\* is there but whose lookup failed, with no content.
C21_Witness ==
    /\ ListedCombined(Caller)
    /\ Len(Reply(Caller).memories) = 2
    /\ \E i, j \in 1..2 :
          /\ Reply(Caller).memories[i].content # None
          /\ Reply(Caller).memories[j].content = None
          /\ OsHas(Key(Reply(Caller).memories[j].id))

\* A List of slot p in content-only mode has returned.
ListedContentOnly(p) == Done(p, "memory.list") /\ req[p].source = Some("opensearch")
\* The lists a content-only List with the given limit may return, whoever
\* asks: the newest documents of the Document Store, of any owner.
ContentOnlyLists(limit) ==
    { m \in UNION { [1..n -> { DocumentListResult(os[k], clock) : k \in DOMAIN os }] :
                      n \in {Min(ListLimit(limit), Cardinality(DOMAIN os))} } :
        /\ \A i, j \in 1..Len(m) : i < j => m[i].id # m[j].id /\ m[i].created_at >= m[j].created_at
        /\ \A k \in DOMAIN os : Unwrap(UuidParseStr(k)) \notin { m[i].id : i \in 1..Len(m) } =>
              \A i \in 1..Len(m) : m[i].created_at >= OsCreatedAt(k) }

\* C22: the content-only List does not look at the owner argument. Its result
\* is one of the lists that the store contents and the limit alone determine
\* (the newest documents of any owner), so two calls that differ only in the
\* owner have the same results; with the listing call failed it is empty for
\* every owner.
C22_ContentOnlyIgnoresOwner ==
    \A p \in Procs :
        ListedContentOnly(p) =>
            /\ calls[p] \in { << <<"os.list_all", ok>> >> : ok \in CallOutcomes }
            /\ IF calls[p][1][2]
               THEN Reply(p).memories \in ContentOnlyLists(req[p].limit)
               ELSE Reply(p).memories = <<>>

\* A content-only List for one owner returns a document of another owner.
C22_Witness ==
    /\ ListedContentOnly(Caller)
    /\ req[Caller].user_id = Some("u1")
    /\ \E k \in 1..Len(Reply(Caller).memories) :
          os[Key(Reply(Caller).memories[k].id)].user_id # Some("u1")

\* C23: id, owner and createdAt do not change after creation. Across every
\* step an index row that stays keeps its id, user_id and created_at, and so
\* does a document that stays; a step of an Update removes neither a row nor
\* a document, whatever fields it carries and however its calls end; a row
\* goes only at the DELETE of a Delete or of a Save's rollback, a document
\* only at the delete_document of a Delete.
C23_IdentityImmutable ==
    [][/\ \A i \in DOMAIN pg \cap DOMAIN pg' :
            /\ pg'[i].id = pg[i].id /\ pg[i].id = i
            /\ pg'[i].user_id = pg[i].user_id
            /\ pg'[i].created_at = pg[i].created_at
       /\ \A k \in DOMAIN os \cap DOMAIN os' :
            /\ os'[k].id = os[k].id /\ os[k].id = k
            /\ os'[k].user_id = os[k].user_id
            /\ os'[k].created_at = os[k].created_at
       /\ \A p \in Procs :
            Acts(p) /\ req'[p].type = "memory.update" =>
                DOMAIN pg \subseteq DOMAIN pg' /\ DOMAIN os \subseteq DOMAIN os'
       /\ DOMAIN pg \ DOMAIN pg' # {} =>
            \E p \in Procs : Acts(p) /\ pc[p] \in {"delete_pg", "save_rollback"}
       /\ DOMAIN os \ DOMAIN os' # {} =>
            \E p \in Procs : Acts(p) /\ pc[p] = "delete_os"]_vars

\* An Update carrying summary, importance and tags went through in both
\* stores at a later time than the Save: the record still has the owner and
\* the createdAt of its creation.
C23_Witness ==
    \E p \in Procs :
        /\ Done(p, "memory.update") /\ Reply(p).ok
        /\ req[p].summary # None /\ req[p].importance # None /\ req[p].tags # None
        /\ LastCall(p) = <<"os.index", TRUE>>
        /\ PgHas(req[p].id) /\ OsHas(Key(req[p].id))
        /\ pg[req[p].id].summary = req[p].summary
        /\ os[Key(req[p].id)].summary = req[p].summary
        /\ pg[req[p].id].user_id = Some("u1")
        /\ os[Key(req[p].id)].user_id = Some("u1")
        /\ pg[req[p].id].created_at < pg[req[p].id].updated_at
        /\ os[Key(req[p].id)].created_at = ToRfc3339(pg[req[p].id].created_at)

\* The step is a call of slot p to the given store ("pg" or "os").
Calls(p, store) ==
    /\ Len(calls'[p]) = Len(calls[p]) + 1
    /\ \E name \in {store \o ".insert", store \o ".update", store \o ".delete",
                     store \o ".get", store \o ".index", store \o ".select"} :
          LastCall(p)'[1] = name
\* The Index Store write each write operation starts with.
FirstWrite(type) ==
    CASE type = "memory.save" -> "pg.insert"
      [] type = "memory.update" -> "pg.update"
      [] type = "memory.delete" -> "pg.delete"
WriteTypes == {"memory.save", "memory.update", "memory.delete"}

\* C24: the write operations go to the Index Store first. A Save, Update or
\* Delete goes past its index write only when that call succeeded and, for
\* Update and Delete, the row was there to be affected; it calls the Document
\* Store only after that first call, which is its own index write and was
\* successful; and the second Index Store call of a Save, the compensating
\* delete, comes only straight after its failed document write.
C24_IndexStoreFirst ==
    [][\A p \in Procs :
         Acts(p) /\ req[p].type \in WriteTypes /\ pc[p] # "idle" =>
            /\ Calls(p, "pg") /\ calls[p] = <<>> =>
                  /\ LastCall(p)'[1] = FirstWrite(req[p].type)
                  /\ pc'[p] # "idle" =>
                        /\ LastCall(p)'[2]
                        /\ req[p].type # "memory.save" => PgHas(req[p].id)
            /\ Calls(p, "os") =>
                  /\ calls[p] # <<>>
                  /\ calls[p][1] = <<FirstWrite(req[p].type), TRUE>>
                  /\ \A k \in 2..Len(calls[p]) : calls[p][k][1] \notin {"pg.insert", "pg.update", "pg.delete"}
            /\ Calls(p, "pg") /\ calls[p] # <<>> =>
                  /\ req[p].type = "memory.save"
                  /\ LastCall(p)'[1] = "pg.delete"
                  /\ calls[p] = << <<"pg.insert", TRUE>>, <<"os.index", FALSE>> >>
            /\ calls[p] = <<>> => Calls(p, "pg")]_vars

\* A Save that went through its three calls: the insert, the failed document
\* write, the compensating delete; and an Update of another slot that went
\* through its own three.
C24_Witness ==
    \E p, q \in Procs :
        /\ Done(p, "memory.save")
        /\ calls[p] = << <<"pg.insert", TRUE>>, <<"os.index", FALSE>>, <<"pg.delete", TRUE>> >>
        /\ Done(q, "memory.update")
        /\ calls[q] = << <<"pg.update", TRUE>>, <<"os.get", TRUE>>, <<"os.index", TRUE>> >>

\* The most calls an operation makes: one per store step of its handler, and
\* for the combined List one document lookup per row listed.
MostCalls(p) ==
    CASE req[p].type = "memory.save" -> 3
      [] req[p].type = "memory.update" -> 3
      [] req[p].type = "memory.delete" -> 2
      [] req[p].type = "memory.get" -> 2
      [] req[p].type = "memory.search" -> 4
      [] req[p].type = "memory.list" ->
           IF req[p].source \in {Some("postgres"), Some("opensearch")} THEN 1
           ELSE 1 + Min(ListLimit(req[p].limit), Cardinality(DOMAIN pg))
      [] OTHER -> 0
\* The operation in slot p has made some call again after it failed.
Retried(p) ==
    \E k \in 1..(Len(calls[p]) - 1) :
        /\ ~calls[p][k][2]
        /\ calls[p][k + 1][1] = calls[p][k][1]
        /\ req[p].type # "memory.list"

\* C25: every operation returns. With every call answered, an operation that
\* has been invoked comes to hold a response; the response of a request is
\* set once, at the step that ends the handler; the handler makes at least
\* one and at most a fixed number of calls and makes no call again after it
\* failed.
C25_EveryOperationReturns ==
    /\ \A p \in Procs : (pc[p] # "idle") ~> (pc[p] = "idle" /\ resp[p] # None)
    /\ [](\A p \in Procs :
            /\ Len(calls[p]) <= MostCalls(p)
            /\ ~Retried(p)
            /\ pc[p] # "idle" => resp[p] = None
            /\ pc[p] = "idle" /\ req[p] # NoReq => resp[p] # None /\ calls[p] # <<>>)
    /\ [][\A p \in Procs :
            resp'[p] # resp[p] =>
                \/ pc[p] = "idle" /\ pc'[p] # "idle" /\ resp'[p] = None
                \/ pc[p] # "idle" /\ pc'[p] = "idle" /\ resp[p] = None]_vars

\* A Search has returned after its three calls, to the cache and to the
\* Document Store, all failed; none was made twice.
C25_Witness ==
    /\ Done(Caller, "memory.search")
    /\ calls[Caller] = << <<"redis.get", FALSE>>, <<"os.search", FALSE>>, <<"redis.set", FALSE>> >>
    /\ Reply(Caller).ok

\* The value under the search key of slot p, when the cache holds one.
CachedValue(p) ==
    IF loc[p].cache_key \in DOMAIN redis.data
    THEN Some(redis.data[loc[p].cache_key].value) ELSE None

\* C26: when the cache read succeeds and the value under the key
\* deserializes, the Search returns that value at once: the read is its only
\* call, no store is asked and the cache is not written. When the value does
\* not deserialize the Search goes on to the Document Store as on a miss, and
\* a Search that returns after a miss has asked the Document Store.
C26_HitTouchesNoStore ==
    /\ [][\A p \in Procs :
            pc[p] = "search_cache_get" /\ Acts(p) /\ LastCall(p)' = <<"redis.get", TRUE>>
            /\ CachedValue(p) # None =>
                IF FromJson(Unwrap(CachedValue(p))) # None
                THEN /\ pc'[p] = "idle"
                     /\ resp'[p] = Some(SearchResponse(req[p].query,
                                                       Unwrap(FromJson(Unwrap(CachedValue(p))))))
                     /\ calls'[p] = << <<"redis.get", TRUE>> >>
                     /\ pg' = pg /\ os' = os /\ redis' = redis
                ELSE /\ pc'[p] = "search_os"
                     /\ resp'[p] = None
                     /\ redis' = redis]_vars
    /\ [](\A p \in Procs :
            Done(p, "memory.search") /\ UsesCache(req[p].frontend) =>
                \/ calls[p] = << <<"redis.get", TRUE>> >>
                \/ /\ Len(calls[p]) >= 3
                   /\ calls[p][1][1] = "redis.get"
                   /\ calls[p][2][1] = "os.search"
                   /\ LastCall(p)[1] = "redis.set")

\* A Search that found a value that is no result list went to both stores
\* and returned a record; its cache write failed, so the value is still there.
C26_Witness ==
    /\ Done(Caller, "memory.search")
    /\ calls[Caller][1] = <<"redis.get", TRUE>>
    /\ Len(calls[Caller]) = 4
    /\ LastCall(Caller) = <<"redis.set", FALSE>>
    /\ CachedValue(Caller) = Some("not json")
    /\ Reply(Caller).results # <<>>

\* The Search of slot p had the index row of id to rank with.
RowSeen(p, id) == ~IndexLookupFailed(p) /\ PgHas(id)

\* C27: on a miss no candidate is dropped for want of metadata. When the
\* document search succeeded the reply holds min(limit, hits) of the hits;
\* one whose index row was not to be had (no row, or the lookup failed) is
\* reported with importance 0.5 and createdAt = now, one whose row was there
\* with the row's importance and createdAt, whatever the document mirrors;
\* the score is the combined score of the values reported.
C27_MetadataFromIndexOrFallback ==
    \A p \in Procs :
        SearchedStores(p) /\ ~DocumentSearchFailed(p) =>
            /\ Len(Reply(p).results) =
                  Min(Cardinality(Hits(p)), SearchLimit(req[p].frontend, req[p].limit))
            /\ \A i, j \in 1..Len(Reply(p).results) :
                  i # j => Reply(p).results[i].id # Reply(p).results[j].id
            /\ \A k \in 1..Len(Reply(p).results) :
                  LET r == Reply(p).results[k]
                  IN  /\ Key(r.id) \in Hits(p)
                      /\ r.content = os[Key(r.id)].content
                      /\ r.importance_score =
                            IF RowSeen(p, r.id) THEN pg[r.id].importance_score
                            ELSE FallbackImportance
                      /\ r.created_at =
                            IF RowSeen(p, r.id) THEN pg[r.id].created_at ELSE clock
                      /\ r.score = r.importance_score * ImportanceWeight * 100
                                    + recency_score(r.created_at, clock) * RecencyWeight

\* Two candidates in one reply: one without an index row, reported with the
\* fallback; one with a row whose importance differs from the one mirrored in
\* its document, reported with the row's.
C27_Witness ==
    /\ SearchedStores(Caller)
    /\ ~IndexLookupFailed(Caller)
    /\ \E i, j \in 1..Len(Reply(Caller).results) :
          LET a == Reply(Caller).results[i]
              b == Reply(Caller).results[j]
          IN  /\ ~PgHas(a.id) /\ a.importance_score = FallbackImportance
              /\ PgHas(b.id)
              /\ b.importance_score = pg[b.id].importance_score
              /\ b.importance_score # os[Key(b.id)].importance_score

\* min(max(limit or 5, 1), 50) for the interactive front-end and
\* min(max(limit or 5, 1), 20) for the tool-driven one.
EffectiveLimit(frontend, limit) ==
    LET asked == IF limit = None THEN 5 ELSE Unwrap(limit)
        floored == IF asked < 1 THEN 1 ELSE asked
        cap == IF frontend = "http" THEN 50 ELSE 20
    IN  IF floored > cap THEN cap ELSE floored

\* C28: whatever limit is requested, a Search works with the effective
\* limit of its front-end, asks the Document Store for twice that many
\* candidates (and gets no more), and returns no more results than the
\* effective limit.
C28_LimitClamped ==
    \A p \in Procs :
        req[p].type = "memory.search" =>
            LET eff == EffectiveLimit(req[p].frontend, req[p].limit)
            IN  /\ eff \in 1..50
                /\ loc[p].limit = eff
                /\ loc[p].size = 2 * eff
                /\ Len(loc[p].docs) <= 2 * eff
                /\ Len(loc[p].results) <= eff
                /\ Done(p, "memory.search") => Len(Reply(p).results) <= eff

\* A Search of the interactive front-end asked for a limit of 0: it got both
\* matching records from the Document Store and returned one.
C28_Witness ==
    /\ Done(Caller, "memory.search")
    /\ req[Caller].frontend = "http"
    /\ req[Caller].limit = Some(0)
    /\ Len(loc[Caller].docs) = 2
    /\ Len(Reply(Caller).results) = 1

\* The record of id was in both stores when the request of slot p arrived.
StoredAtArrival(p, id) == id \in DOMAIN before[p].pg /\ Key(id) \in DOMAIN before[p].os

\* An Update in slot p and a Delete in slot q of the same id, a record saved
\* before either arrived, have both returned, the Delete with success, and no
\* call of either failed.
UpdateAndDeleteReturned(p, q) ==
    /\ Done(p, "memory.update") /\ Done(q, "memory.delete")
    /\ req[p].id = req[q].id
    /\ StoredAtArrival(p, req[p].id) /\ StoredAtArrival(q, req[q].id)
    /\ Reply(q).ok
    /\ ~CallFailed(p) /\ ~CallFailed(q)

\* C29: a Delete removes the record even with an Update of the same id in
\* flight. Once both have returned, the Delete with success and no store call
\* having failed, neither the Index Store nor the Document Store holds a
\* record of the id.
C29_DeleteRemovesDespiteUpdate ==
    \A p, q \in Procs :
        UpdateAndDeleteReturned(p, q) =>
            ~PgHas(req[q].id) /\ ~OsHas(Key(req[q].id))

\* Both have returned, no call failed, the index row is gone, and the
\* Document Store holds the document the Update wrote back.
C29_Witness ==
    \E p, q \in Procs :
        /\ UpdateAndDeleteReturned(p, q)
        /\ calls[p] = << <<"pg.update", TRUE>>, <<"os.get", TRUE>>, <<"os.index", TRUE>> >>
        /\ calls[q] = << <<"pg.delete", TRUE>>, <<"os.delete", TRUE>> >>
        /\ ~PgHas(req[q].id)
        /\ OsHas(Key(req[q].id))
        /\ os[Key(req[q].id)].updated_at = ToRfc3339(Reply(p).updated_at)

\* A Delete of id has returned success.
DeleteSucceeded(id) == outcome[id].deleted > 0

\* C30: with the cache absent, a Search returns no record of an id for which
\* a Delete has returned success, whatever calls failed before.
C30_DeletedNeverServed ==
    \A p \in Procs :
        Done(p, "memory.search") /\ ~UsesCache(req[p].frontend) =>
            \A k \in 1..Len(Reply(p).results) : ~DeleteSucceeded(Reply(p).results[k].id)

\* A Search without cache returns, with the fallback importance, a record
\* whose Delete returned success: the row is gone, the document is not.
C30_Witness ==
    /\ Done(Caller, "memory.search")
    /\ ~UsesCache(req[Caller].frontend)
    /\ \E k \in 1..Len(Reply(Caller).results) :
          LET r == Reply(Caller).results[k]
          IN  /\ DeleteSucceeded(r.id)
              /\ ~PgHas(r.id) /\ OsHas(Key(r.id))
              /\ r.importance_score = FallbackImportance
              /\ r.created_at = clock

\* Searches of the HTTP front-end, with a cache, whose owner or query holds
\* the separator of the cache key, or whose owner is the wildcard's text.
KeyOwners == {None, Some("*"), Some("u1"), Some("u1:q")}
KeyQueries == {"q", "q:q"}

InitKeys ==
    /\ pg = [i \in Ids |-> StoredRow(i, [importance_score |-> 9, created_at |-> MaxAge])]
    /\ os = [k \in { UuidToString(i) : i \in Ids } |->
               StoredDocument(k[2], Some([importance_score |-> 9, created_at |-> MaxAge]))]
    /\ clock = MaxAge
    /\ nextId = MaxIds + 1
    /\ pc = [p \in Procs |-> "idle"]
    /\ req = [p \in Procs |-> NoReq]
    /\ loc = [p \in Procs |-> NoLoc]
    /\ resp = [p \in Procs |-> None]
    /\ calls = [p \in Procs |-> <<>>]
    /\ before = [p \in Procs |-> [pg |-> <<>>, os |-> <<>>]]
    /\ outcome = [i \in Ids |-> [save |-> "none", input |-> NoReq, changed |-> FALSE,
                                 deleted |-> 0]]
    /\ served = 0
    /\ redis = [conn |-> TRUE, data |-> <<>>]
    /\ computed = <<>>

NextKeys ==
    \/ \E p \in Procs, query \in KeyQueries, user_id \in KeyOwners :
          SearchStart(p, "http", query, None, user_id)
    \/ \E p \in Procs : SearchStep(p)

SpecKeys == InitKeys /\ [][NextKeys]_vars

\* The normalized tuple of the Search in slot p.
SearchTuple(p) == <<req[p].user_id, req[p].query, loc[p].limit>>

\* C31: two Searches whose (owner-or-absent, query, clamped limit) tuples
\* differ never use the same cache key.
C31_CacheKeyInjective ==
    \A p, q \in Procs :
        /\ req[p].type = "memory.search" /\ req[q].type = "memory.search"
        /\ SearchTuple(p) # SearchTuple(q)
        => loc[p].cache_key # loc[q].cache_key

\* A Search with an owner filter is answered from the cache entry that a
\* Search of another tuple wrote, with a record of another owner.
C31_Witness ==
    \E p, q \in Procs :
        /\ Done(p, "memory.search") /\ LastCall(p) = <<"redis.set", TRUE>>
        /\ AnsweredFromCache(q)
        /\ SearchTuple(p) # SearchTuple(q)
        /\ loc[p].cache_key = loc[q].cache_key
        /\ IsSome(req[q].user_id)
        /\ Reply(q).results = Reply(p).results
        /\ \E k \in 1..Len(Reply(q).results) :
              os[Key(Reply(q).results[k].id)].user_id # req[q].user_id

\* Slot p holds the answer of a Search that wrote its result to the cache.
WroteCache(p) == Done(p, "memory.search") /\ LastCall(p) = <<"redis.set", TRUE>>

\* C32: a Search whose document search or index lookup failed does not
\* write its result to the cache: every value stored under a search key
\* was computed from successful store reads.
C32_DegradedNotCached ==
    \A p \in Procs :
        WroteCache(p) => ~DocumentSearchFailed(p) /\ ~IndexLookupFailed(p)

\* With the stores as they were from the start and holding a match, a Search
\* is answered from the cache with the empty list that an earlier Search,
\* whose document search failed, stored there.
C32_Witness ==
    /\ AnsweredFromCache(Caller)
    /\ Reply(Caller).results = <<>>
    /\ Hits(Caller) # {}
    /\ \A id \in Ids : outcome[id].deleted = 0

\* C33: in every interleaving of Updates on one id, the row's updated_at
\* never decreases from one state to the next and is never earlier than its
\* created_at.
C33_UpdatedAtMonotonic ==
    [][\A p \in Procs :
         /\ pc[p] = "update_pg" /\ Acts(p)
         /\ StoredAtArrival(p, loc[p].id)
         /\ loc[p].id \in DOMAIN pg /\ loc[p].id \in DOMAIN pg'
         => /\ pg'[loc[p].id].updated_at >= pg[loc[p].id].updated_at
            /\ pg'[loc[p].id].updated_at >= pg'[loc[p].id].created_at]_vars

\* Two Updates of one stored record have both returned success, no call
\* having failed, and the row's updated_at is earlier than the updated_at
\* returned to one of them.
C33_Witness ==
    \E p, q \in Procs :
        /\ p # q
        /\ Done(p, "memory.update") /\ Done(q, "memory.update")
        /\ req[p].id = req[q].id
        /\ StoredAtArrival(p, req[p].id) /\ StoredAtArrival(q, req[q].id)
        /\ Reply(p).ok /\ Reply(q).ok
        /\ ~CallFailed(p) /\ ~CallFailed(q)
        /\ PgHas(req[p].id)
        /\ pg[req[p].id].updated_at = Reply(p).updated_at
        /\ pg[req[p].id].updated_at < Reply(q).updated_at

\* Updates of several callers at once that each set one field, a different
\* one, of a record a caller has saved.
MergeFields ==
    { [content |-> None, summary |-> Some("s2"), importance |-> None, tags |-> None],
      [content |-> None, summary |-> None, importance |-> None, tags |-> Some(<<"t2">>)] }

NextMerge ==
    \/ Tick
    \/ \E r \in SaveRequests : SaveBegin(Caller, r)
    \/ SaveStep(Caller)
    \/ \E p \in Procs : \E id \in Ids, f \in MergeFields : UpdateStart(p, id, f)
    \/ \E p \in Procs : UpdateStep(p)

SpecMerge == Init /\ [][NextMerge]_vars

\* The fields of an Update request that are set.
FieldsSet(r) == { f \in {"content", "summary", "importance", "tags"} : IsSome(r[f]) }

\* Two Updates of one record, stored in both stores before either arrived,
\* that set different fields have both returned success, no call having failed.
BothUpdatesReturned(p, q) ==
    /\ p # q
    /\ Done(p, "memory.update") /\ Done(q, "memory.update")
    /\ req[p].id = req[q].id
    /\ StoredAtArrival(p, req[p].id) /\ StoredAtArrival(q, req[q].id)
    /\ FieldsSet(req[p]) # {} /\ FieldsSet(req[q]) # {}
    /\ FieldsSet(req[p]) \cap FieldsSet(req[q]) = {}
    /\ Reply(p).ok /\ Reply(q).ok
    /\ ~CallFailed(p) /\ ~CallFailed(q)

\* C34: after two concurrent Updates of one id that set different fields
\* have both returned success with no store failure, the document equals the
\* index row on summary, importance and tags.
C34_ConcurrentUpdatesMirrored ==
    \A p, q \in Procs :
        BothUpdatesReturned(p, q) =>
            /\ PgHas(req[p].id) /\ OsHas(Key(req[p].id))
            /\ os[Key(req[p].id)].summary = pg[req[p].id].summary
            /\ os[Key(req[p].id)].importance_score = pg[req[p].id].importance_score
            /\ os[Key(req[p].id)].tags = pg[req[p].id].tags

\* Both Updates have returned; the row holds the summary of the one and the
\* tags of the other, the document only one of the two changes.
C34_Witness ==
    \E p, q \in Procs :
        /\ BothUpdatesReturned(p, q)
        /\ IsSome(req[p].summary) /\ IsSome(req[q].tags)
        /\ pg[req[p].id].summary = req[p].summary
        /\ pg[req[p].id].tags = Unwrap(req[q].tags)
        /\ os[Key(req[p].id)].tags = Unwrap(req[q].tags)
        /\ os[Key(req[p].id)].summary # req[p].summary

\* The document carries the owner, summary, importance, tags and timestamps
\* of the row.
Mirrors(row, doc) ==
    /\ doc.user_id = row.user_id
    /\ doc.summary = row.summary
    /\ doc.importance_score = row.importance_score
    /\ doc.tags = row.tags
    /\ doc.created_at = ToRfc3339(row.created_at)
    /\ doc.updated_at = ToRfc3339(row.updated_at)

\* The stores hold the same ids, and each document mirrors its row.
StoresAgree(rows, docs) ==
    /\ DOMAIN docs = { Key(i) : i \in DOMAIN rows }
    /\ \A i \in DOMAIN rows : Mirrors(rows[i], docs[Key(i)])

WritingTypes == {"memory.save", "memory.update", "memory.delete"}

\* C35: with requests one after the other, a Save, Update or Delete none of
\* whose store calls failed takes stores that agree to stores that agree;
\* the empty stores agree, so after any sequence of such operations the two
\* stores hold the same ids and each document equals its row on owner,
\* summary, importance, tags, createdAt and updatedAt.
C35_StoresAgreeWithoutFailures ==
    /\ (\A p \in Procs : pc[p] = "idle" /\ resp[p] = None) => StoresAgree(pg, os)
    /\ \A p \in Procs :
          /\ \E type \in WritingTypes : Done(p, type)
          /\ ~CallFailed(p)
          /\ StoresAgree(before[p].pg, before[p].os)
          => StoresAgree(pg, os)

\* Before the Update the stores agreed and held the record; its calls
\* succeeded and changed the row; the stores agree again.
C35_Witness ==
    /\ Done(Caller, "memory.update")
    /\ ~CallFailed(Caller)
    /\ Reply(Caller).ok
    /\ StoresAgree(before[Caller].pg, before[Caller].os)
    /\ req[Caller].id \in DOMAIN before[Caller].pg
    /\ IsSome(req[Caller].summary)
    /\ pg[req[Caller].id] # before[Caller].pg[req[Caller].id]
    /\ pg[req[Caller].id].updated_at > pg[req[Caller].id].created_at
    /\ StoresAgree(pg, os)

\* The Update in slot p has returned after a document lookup that found
\* nothing or failed: the lookup was its last call.
UpdateWithoutDocument(p) ==
    /\ Done(p, "memory.update")
    /\ Len(calls[p]) = 2
    /\ calls[p][1] = <<"pg.update", TRUE>>
    /\ calls[p][2][1] = "os.get"
    /\ req[p].id \in DOMAIN before[p].pg

\* C36: an Update never creates a document. When the id has an index row
\* and the document lookup returns nothing or fails, the Update has
\* committed the row's change, returns success and leaves the Document Store
\* as it was; a Get of an id without a document answers with no memory.
C36_UpdateNeverCreatesDocument ==
    \A p \in Procs :
        /\ Done(p, "memory.update") => DOMAIN os \subseteq DOMAIN before[p].os
        /\ UpdateWithoutDocument(p) =>
              /\ Reply(p) = UpdateResult(p)
              /\ os = before[p].os
              /\ pg = [before[p].pg EXCEPT ![req[p].id] =
                          RowAfterUpdate(@, req[p], Reply(p).updated_at)]
        /\ Done(p, "memory.get") /\ ~OsHas(Key(req[p].id)) => Reply(p).memory = None

\* An Update with content of a record that has a row and no document: the
\* lookup succeeded and found nothing, the row is changed, the content is
\* nowhere in the Document Store.
C36_Witness ==
    /\ UpdateWithoutDocument(Caller)
    /\ ~CallFailed(Caller)
    /\ IsSome(req[Caller].content)
    /\ ~OsHas(Key(req[Caller].id))
    /\ pg[req[Caller].id] # before[Caller].pg[req[Caller].id]
    /\ \A k \in DOMAIN os : os[k].content # Unwrap(req[Caller].content)

====
